---- MODULE Spec2Model ----
(***************************************************************************)
(* A model of zish (src/zish/core.py): the lexer generator lex(), the      *)
(* recursive-descent parse(), the entry point loads() and the serializer   *)
(* dumps().                                                                *)
(*                                                                         *)
(* A character is a one-character string; characters that have no TLA+     *)
(* string escape are written as a mnemonic in angle brackets.  A text is a *)
(* sequence of characters.  The lexer examines the text followed by one    *)
(* end-of-input sentinel (Python's None, core.py line 386), written EOF.   *)
(***************************************************************************)
EXTENDS Integers, Sequences, FiniteSets, TLC

----------------------------------------------------------------------------
(* Characters *)

EOF == "EOF"
NoChar == "None"
QUOTE == "\""
BACKSLASH == "\\"
APOS == "'"
TAB == "\t"
LF == "\n"
VT == "<VT>"
FF == "\f"
CR == "\r"
SP == " "
NBSP == "<NBSP>"
NUL == "<NUL>"
BEL == "<BEL>"
BS == "<BS>"

\* Token types
TT_START_MAP == 0
TT_FINISH_MAP == 1
TT_COLON == 2
TT_COMMA == 3
TT_START_LIST == 4
TT_FINISH_LIST == 5
TT_BYTES == 6
TT_STRING == 7
TT_PRIMITIVE == 8
TT_NO_DELIM == 9
TT_TIMESTAMP == 10
TT_COMMENT == 11
\* token_type = None before the first token starts
TT_None == -1

SINGLE_TOKENS == {"{", "}", ":", ",", "[", "]"}

SingleTokenType(c) ==
  CASE c = "{" -> TT_START_MAP
    [] c = "}" -> TT_FINISH_MAP
    [] c = ":" -> TT_COLON
    [] c = "," -> TT_COMMA
    [] c = "[" -> TT_START_LIST
    [] c = "]" -> TT_FINISH_LIST

SPACE == {EOF, TAB, LF, VT, FF, CR, SP, NBSP}

NO_DELIM_END == SINGLE_TOKENS \cup SPACE \cup {"/"}

----------------------------------------------------------------------------
(* Sequences of characters *)

Range(s) == {s[i] : i \in 1..Len(s)}

Take(s, n) == SubSeq(s, 1, IF n < Len(s) THEN n ELSE Len(s))

Drop(s, n) == SubSeq(s, n + 1, Len(s))

StartsWith(s, p) == Len(p) <= Len(s) /\ SubSeq(s, 1, Len(p)) = p

\* str.find: the first index (1-based) of c in s, 0 when absent
Find(s, c) ==
  IF c \in Range(s) THEN CHOOSE i \in 1..Len(s) : s[i] = c /\ \A j \in 1..(i - 1) : s[j] # c
  ELSE 0

\* list.count
Count(s, c) == Cardinality({i \in 1..Len(s) : s[i] = c})

RECURSIVE Flatten(_)
Flatten(ss) == IF ss = <<>> THEN <<>> ELSE Head(ss) \o Flatten(Tail(ss))

DigitChars == <<"0", "1", "2", "3", "4", "5", "6", "7", "8", "9">>

Digits == Range(DigitChars)

DigitVal(c) == (CHOOSE i \in 1..10 : DigitChars[i] = c) - 1

HexLower == <<"a", "b", "c", "d", "e", "f">>

HexUpper == <<"A", "B", "C", "D", "E", "F">>

HexDigits == Digits \cup Range(HexLower) \cup Range(HexUpper)

HexVal(c) ==
  IF c \in Digits THEN DigitVal(c)
  ELSE IF c \in Range(HexLower) THEN 9 + (CHOOSE i \in 1..6 : HexLower[i] = c)
  ELSE 9 + (CHOOSE i \in 1..6 : HexUpper[i] = c)

AllDigits(s) == \A i \in 1..Len(s) : s[i] \in Digits

\* the number written by a sequence of decimal digits
RECURSIVE NatOf(_)
NatOf(ds) ==
  IF ds = <<>> THEN 0 ELSE 10 * NatOf(SubSeq(ds, 1, Len(ds) - 1)) + DigitVal(ds[Len(ds)])

\* the decimal digits of a natural number, "0" for 0
RECURSIVE DigitsOf(_)
DigitsOf(n) ==
  IF n < 10 THEN <<DigitChars[n + 1]>> ELSE DigitsOf(n \div 10) \o <<DigitChars[(n % 10) + 1]>>

\* a run of k copies of c
Rep(c, k) == [i \in 1..k |-> c]

----------------------------------------------------------------------------
(* Code points: chr() and the bytes of ASCII text *)

\* the printable ASCII characters, code points 32..126 in order (the grave
\* accent, 96, has no TLA+ string and is written as a mnemonic)
Ascii ==
  <<
  " ", "!", "\"", "#", "$", "%", "&", "'", "(", ")", "*", "+", ",", "-", ".", "/",
  "0", "1", "2", "3", "4", "5", "6", "7", "8", "9", ":", ";", "<", "=", ">", "?",
  "@", "A", "B", "C", "D", "E", "F", "G", "H", "I", "J", "K", "L", "M", "N", "O",
  "P", "Q", "R", "S", "T", "U", "V", "W", "X", "Y", "Z", "[", "\\", "]", "^", "_",
  "<GRAVE>", "a", "b", "c", "d", "e", "f", "g", "h", "i", "j", "k", "l", "m", "n", "o",
  "p", "q", "r", "s", "t", "u", "v", "w", "x", "y", "z", "{", "|", "}", "~"
  >>

\* the standard base64 alphabet, values 0..63 in order
B64Chars ==
  <<
  "A", "B", "C", "D", "E", "F", "G", "H", "I", "J", "K", "L", "M", "N", "O", "P",
  "Q", "R", "S", "T", "U", "V", "W", "X", "Y", "Z", "a", "b", "c", "d", "e", "f",
  "g", "h", "i", "j", "k", "l", "m", "n", "o", "p", "q", "r", "s", "t", "u", "v",
  "w", "x", "y", "z", "0", "1", "2", "3", "4", "5", "6", "7", "8", "9", "+", "/"
  >>

MaxCodePoint == 1114111

\* chr(n) for 0 <= n <= MaxCodePoint
Chr(n) ==
  IF n >= 32 /\ n <= 126 THEN Ascii[n - 31]
  ELSE CASE n = 0 -> NUL
         [] n = 7 -> BEL
         [] n = 8 -> BS
         [] n = 9 -> TAB
         [] n = 10 -> LF
         [] n = 11 -> VT
         [] n = 12 -> FF
         [] n = 13 -> CR
         [] n = 160 -> NBSP
         [] OTHER -> "<U+" \o ToString(n) \o ">"

\* characters of the model outside ASCII
NonAscii == {NBSP}

\* str.isspace() characters of the model: what str.strip() and int() skip
PyWhitespace == {TAB, LF, VT, FF, CR, SP, NBSP}

----------------------------------------------------------------------------
(* Values: what a PRIMITIVE token carries and what parse() builds.  A value *)
(* is a tuple whose first element names the Python type.                    *)

VNull == <<"null">>

VBool(b) == <<"bool", b>>

VInt(n) == <<"int", n>>

\* decimal.Decimal as its (sign, coefficient, exponent) triple
VDec(sign, coeff, exp) == <<"dec", sign, coeff, exp>>

VStr(s) == <<"str", s>>

\* bytes: a sequence of numbers 0..255
VBytes(bs) == <<"bytes", bs>>

\* an aware datetime: date and time fields, microseconds, UTC offset in minutes
VTimestamp(f, off) == <<"ts", f, off>>

VList(items) == <<"list", items>>

\* a dict: its (key, value) pairs in insertion order
VMap(entries) == <<"map", entries>>

TypeOf(v) == v[1]

----------------------------------------------------------------------------
(* The regular expressions and the conversions of bare literals *)

\* the number of leading decimal digits of s
RECURSIVE LeadDigits(_)
LeadDigits(s) ==
  IF s # <<>> /\ Head(s) \in Digits THEN 1 + LeadDigits(Tail(s)) ELSE 0

\* (0|[1-9]\d*) matched against the whole of s
IntegerBody(s) == s # <<>> /\ AllDigits(s) /\ (s[1] = "0" => Len(s) = 1)

Unsigned(s) == IF s # <<>> /\ s[1] = "-" THEN Tail(s) ELSE s

RE_INTEGER(s) == IntegerBody(Unsigned(s))

\* int(ustr) for a text RE_INTEGER matches
IntOf(s) == IF s[1] = "-" THEN 0 - NatOf(Tail(s)) ELSE NatOf(s)

\* The parts of a text under RE_DECIMAL: integer part, optional fraction,
\* optional exponent (its sign and its digits); ok says whether the whole
\* text matches.
DecimalParts(s) ==
  LET Result(ipart, fpart, ok, eneg, edigits) ==
        [ok |-> IntegerBody(ipart) /\ ok, neg |-> s # <<>> /\ s[1] = "-",
         ipart |-> ipart, fpart |-> fpart, eneg |-> eneg, edigits |-> edigits]
      ExponentDigits(ipart, fpart, neg, edigits) ==
        IF edigits # <<>> /\ AllDigits(edigits)
        THEN Result(ipart, fpart, TRUE, neg, edigits)
        ELSE Result(ipart, fpart, FALSE, FALSE, <<>>)
      AfterFraction(ipart, fpart, r2) ==
        IF r2 # <<>> /\ r2[1] \in {"e", "E"}
        THEN IF Len(r2) >= 2 /\ r2[2] \in {"+", "-"}
             THEN ExponentDigits(ipart, fpart, r2[2] = "-", Drop(r2, 2))
             ELSE ExponentDigits(ipart, fpart, FALSE, Tail(r2))
        ELSE Result(ipart, fpart, r2 = <<>>, FALSE, <<>>)
      FractionDigits(ipart, r1, flen) ==
        AfterFraction(ipart, SubSeq(r1, 2, 1 + flen), Drop(r1, 1 + flen))
      AfterInteger(ipart, r1) ==
        IF r1 # <<>> /\ r1[1] = "." THEN FractionDigits(ipart, r1, LeadDigits(Tail(r1)))
        ELSE AfterFraction(ipart, <<>>, r1)
      IntegerDigits(body, ilen) == AfterInteger(Take(body, ilen), Drop(body, ilen))
      Body(body) == IntegerDigits(body, LeadDigits(body))
  IN  Body(Unsigned(s))

RE_DECIMAL(s) == DecimalParts(s).ok

\* s without its leading zeros
RECURSIVE StripZeros(_)
StripZeros(s) == IF s # <<>> /\ Head(s) = "0" THEN StripZeros(Tail(s)) ELSE s

\* the number of digits from which an exponent is outside the 64-bit integers
\* of the decimal module, whatever the coefficient is
ExponentDigitsLimit == 20

\* Decimal(ustr) raises decimal.InvalidOperation for a text RE_DECIMAL matches:
\* the exponent is out of the range of the decimal module.  (The exact limits,
\* 18-digit numbers, are beyond the integers of this model: an exponent is
\* taken to be in range when it has at most 9 digits.)
DecimalInvalid(s) == Len(StripZeros(DecimalParts(s).edigits)) >= ExponentDigitsLimit

\* Decimal(ustr) for a text RE_DECIMAL matches, with an exponent in range
DecimalOf(s) ==
  LET Make(p, e) ==
        VDec(IF p.neg THEN 1 ELSE 0, NatOf(p.ipart \o p.fpart),
             (IF p.eneg THEN 0 - e ELSE e) - Len(p.fpart))
      Exp(p) == Make(p, NatOf(StripZeros(p.edigits)))
  IN  Exp(DecimalParts(s))

\* str(int)
StrOfInt(n) == IF n < 0 THEN <<"-">> \o DigitsOf(0 - n) ELSE DigitsOf(n)

\* str(Decimal): decimal.Decimal.__str__
StrOfDecimal(d) ==
  LET Text(ds, dotplace, e) ==
        (IF d[2] = 1 THEN <<"-">> ELSE <<>>)
        \o (IF dotplace <= 0 THEN <<"0">>
            ELSE IF dotplace >= Len(ds) THEN ds \o Rep("0", dotplace - Len(ds))
            ELSE Take(ds, dotplace))
        \o (IF dotplace <= 0 THEN <<".">> \o Rep("0", 0 - dotplace) \o ds
            ELSE IF dotplace >= Len(ds) THEN <<>>
            ELSE <<".">> \o Drop(ds, dotplace))
        \o (IF e = 0 THEN <<>>
            ELSE <<"E">> \o (IF e < 0 THEN <<"-">> ELSE <<"+">>)
                 \o DigitsOf(IF e < 0 THEN 0 - e ELSE e))
      Place(ds, leftdigits, dotplace) == Text(ds, dotplace, leftdigits - dotplace)
      Left(ds, leftdigits) ==
        Place(ds, leftdigits, IF d[4] <= 0 /\ leftdigits > -6 THEN leftdigits ELSE 1)
      Coeff(ds) == Left(ds, d[4] + Len(ds))
  IN  Coeff(DigitsOf(d[3]))

----------------------------------------------------------------------------
(* Escape resolution: ESCAPES and unescape() *)

\* the ESCAPES table in the order of the dict: (what follows the backslash,
\* what it stands for)
ESCAPES ==
  << <<<<"0">>, <<NUL>>>>,
     <<<<"a">>, <<BEL>>>>,
     <<<<"b">>, <<BS>>>>,
     <<<<"t">>, <<TAB>>>>,
     <<<<"n">>, <<LF>>>>,
     <<<<"f">>, <<FF>>>>,
     <<<<"r">>, <<CR>>>>,
     <<<<"v">>, <<VT>>>>,
     <<<<QUOTE>>, <<QUOTE>>>>,
     <<<<APOS>>, <<APOS>>>>,
     <<<<"?">>, <<"?">>>>,
     <<<<BACKSLASH>>, <<BACKSLASH>>>>,
     <<<<"/">>, <<"/">>>>,
     <<<<CR, LF>>, <<>>>>,
     <<<<CR>>, <<>>>>,
     <<<<LF>>, <<>>>> >>

\* the first entry of ESCAPES the text starts with, 0 when there is none
EscapeIndex(tail) ==
  LET First(hits) == IF hits = {} THEN 0 ELSE CHOOSE i \in hits : \A j \in hits : i <= j
  IN  First({i \in 1..Len(ESCAPES) : StartsWith(tail, ESCAPES[i][1])})

\* str.strip()
RECURSIVE LStrip(_)
LStrip(s) == IF s # <<>> /\ Head(s) \in PyWhitespace THEN LStrip(Tail(s)) ELSE s

RECURSIVE RStrip(_)
RStrip(s) ==
  IF s # <<>> /\ s[Len(s)] \in PyWhitespace THEN RStrip(SubSeq(s, 1, Len(s) - 1)) ELSE s

Strip(s) == RStrip(LStrip(s))

\* the largest int of C, which chr() takes its argument as
MaxInt == 2147483647

\* the value of hexadecimal digits with single underscores between them, -1
\* when it is above MaxInt
RECURSIVE HexNat(_)
HexNat(ds) ==
  LET Shift(n) == IF n < 0 \/ n > (MaxInt - 15) \div 16 THEN -1
                  ELSE 16 * n + HexVal(ds[Len(ds)])
  IN  IF ds = <<>> THEN 0
      ELSE IF ds[Len(ds)] = "_" THEN HexNat(SubSeq(ds, 1, Len(ds) - 1))
      ELSE Shift(HexNat(SubSeq(ds, 1, Len(ds) - 1)))

\* int(hex_str, 16): surrounding whitespace, a sign, a 0x prefix and single
\* underscores between digits are accepted; ok = FALSE is ValueError; big says
\* that the number is above MaxInt
IntBase16(hex_str) ==
  LET Number(neg, s4) ==
        LET Result(ok) == [ok |-> ok,
                           big |-> ok /\ HexNat(s4) < 0,
                           n |-> IF ~ok THEN 0
                                 ELSE IF neg THEN 0 - HexNat(s4) ELSE HexNat(s4)]
        IN  Result(/\ s4 # <<>>
                   /\ \A i \in 1..Len(s4) : s4[i] \in HexDigits \cup {"_"}
                   /\ s4[1] # "_"
                   /\ s4[Len(s4)] # "_"
                   /\ \A i \in 1..(Len(s4) - 1) : ~(s4[i] = "_" /\ s4[i + 1] = "_"))
      Prefixed(neg, s3) == Number(neg, IF s3 # <<>> /\ s3[1] = "_" THEN Tail(s3) ELSE s3)
      Unsigned16(neg, s2) ==
        IF Len(s2) >= 2 /\ s2[1] = "0" /\ s2[2] \in {"x", "X"}
        THEN Prefixed(neg, Drop(s2, 2)) ELSE Number(neg, s2)
      Stripped(s1) ==
        IF s1 # <<>> /\ s1[1] \in {"+", "-"} THEN Unsigned16(s1[1] = "-", Tail(s1))
        ELSE Unsigned16(FALSE, s1)
  IN  Stripped(Strip(hex_str))

\* the number of digits of a numeric escape
EscapeDigits(prefix) == CASE prefix = "x" -> 2 [] prefix = "u" -> 4 [] prefix = "U" -> 8

\* r with p put before its text, when r is a result and not an exception
Prepend(p, r) == IF r.exc = "" THEN [exc |-> "", s |-> p \o r.s] ELSE r

\* unescape(escaped_str): exc = "" and the resolved text, or the exception
\* raised (ZishException, the ValueError of int() and chr(), or the
\* OverflowError of chr()) and the text it names
RECURSIVE unescape(_)
unescape(escaped_str) ==
  LET Numeric(head_str, tail_str, digits) ==
        LET Code(hex_str, v) ==
              IF v.big THEN [exc |-> "OverflowError", s |-> hex_str]
              ELSE IF ~v.ok \/ v.n < 0 \/ v.n > MaxCodePoint
              THEN [exc |-> "ValueError", s |-> hex_str]
              ELSE Prepend(head_str \o <<Chr(v.n)>>, unescape(Drop(tail_str, 1 + digits)))
            Hex(hex_str) == Code(hex_str, IntBase16(hex_str))
        IN  Hex(SubSeq(tail_str, 2, IF 1 + digits < Len(tail_str)
                                    THEN 1 + digits ELSE Len(tail_str)))
      Escape(head_str, tail_str, e) ==
        IF e # 0
        THEN Prepend(head_str \o ESCAPES[e][2], unescape(Drop(tail_str, Len(ESCAPES[e][1]))))
        ELSE IF tail_str # <<>> /\ tail_str[1] \in {"x", "u", "U"}
        THEN Numeric(head_str, tail_str, EscapeDigits(tail_str[1]))
        ELSE [exc |-> "ZishException", s |-> escaped_str]
      Split(head_str, tail_str) == Escape(head_str, tail_str, EscapeIndex(tail_str))
      Found(i) ==
        IF i = 0 THEN [exc |-> "", s |-> escaped_str]
        ELSE Split(SubSeq(escaped_str, 1, i - 1), Drop(escaped_str, i))
  IN  Found(Find(escaped_str, BACKSLASH))

----------------------------------------------------------------------------
(* Base64: b64decode(text, validate=True) and b64encode() *)

B64Val(c) == (CHOOSE i \in 1..64 : B64Chars[i] = c) - 1

\* the bytes of one group of four characters, the last p of them padding
B64Group(g, p) ==
  LET Bytes(n) == SubSeq(<<n \div 65536, (n \div 256) % 256, n % 256>>, 1, 3 - p)
  IN  Bytes(((B64Val(g[1]) * 64 + B64Val(g[2])) * 64
             + (IF p >= 2 THEN 0 ELSE B64Val(g[3]))) * 64
            + (IF p >= 1 THEN 0 ELSE B64Val(g[4])))

RECURSIVE B64Bytes(_, _)
B64Bytes(data, p) ==
  IF data = <<>> THEN <<>>
  ELSE IF Len(data) < 4 THEN B64Group(data \o Rep("A", 4 - Len(data)), p)
  ELSE B64Group(SubSeq(data, 1, 4), 0) \o B64Bytes(Drop(data, 4), p)

\* b64decode(s, validate=True): exc = "" and the bytes, or the exception:
\* ValueError for a character outside ASCII, binascii.Error for a character
\* outside the alphabet or wrong padding ('=' after whole groups of four is
\* let through by the decoder)
b64decode(s) ==
  LET Decode(data, pad) ==
        IF \E i \in 1..Len(s) : s[i] \in NonAscii
        THEN [exc |-> "ValueError", bytes |-> <<>>]
        ELSE IF /\ \A i \in 1..Len(data) : data[i] \in Range(B64Chars)
                /\ \A i \in 1..Len(pad) : pad[i] = "="
                /\ \/ Len(data) % 4 = 0 /\ (Len(pad) = 0 \/ Len(data) > 0)
                   \/ Len(data) % 4 = 2 /\ Len(pad) = 2
                   \/ Len(data) % 4 = 3 /\ Len(pad) = 1
        THEN [exc |-> "", bytes |-> B64Bytes(data, Len(pad))]
        ELSE [exc |-> "binascii.Error", bytes |-> <<>>]
      Padding(k) == IF k = 0 THEN Decode(s, <<>>) ELSE Decode(SubSeq(s, 1, k - 1), Drop(s, k - 1))
  IN  Padding(Find(s, "="))

RECURSIVE b64encode(_)
b64encode(bs) ==
  LET Chars(k, n) ==
        SubSeq(<<B64Chars[(n \div 262144) + 1], B64Chars[((n \div 4096) % 64) + 1],
                 B64Chars[((n \div 64) % 64) + 1], B64Chars[(n % 64) + 1]>>, 1, k + 1)
        \o Rep("=", 3 - k) \o b64encode(Drop(bs, k))
      Number(k, g) == Chars(k, (g[1] * 256 + g[2]) * 256 + g[3])
      Group(k) == Number(k, SubSeq(bs, 1, k) \o Rep(0, 3 - k))
  IN  IF bs = <<>> THEN <<>> ELSE Group(IF Len(bs) < 3 THEN Len(bs) ELSE 3)

----------------------------------------------------------------------------
(* Timestamps: RE_TIMESTAMP and the conversion of a matching text *)

\* a two-digit field of s at position i, as a number
Two(s, i) == 10 * DigitVal(s[i]) + DigitVal(s[i + 1])

IsTwoDigits(s, i) == Len(s) > i /\ s[i] \in Digits /\ s[i + 1] \in Digits

\* [+\-]([01]\d|2[0-3]):[0-5]\d matched against the whole of z
IsNumericOffset(z) ==
  /\ Len(z) = 6
  /\ z[1] \in {"+", "-"}
  /\ IsTwoDigits(z, 2) /\ Two(z, 2) <= 23
  /\ z[4] = ":"
  /\ IsTwoDigits(z, 5) /\ Two(z, 5) <= 59

\* what follows the seconds: (\.\d+)?([zZ]|offset)
TimestampTail(s) ==
  LET Fraction(r, flen) ==
        [ok |-> flen >= 1, frac |-> SubSeq(r, 2, 1 + flen), zone |-> Drop(r, 1 + flen)]
      Rest(r) ==
        IF r # <<>> /\ r[1] = "." THEN Fraction(r, LeadDigits(Tail(r)))
        ELSE [ok |-> TRUE, frac |-> <<>>, zone |-> r]
  IN  Rest(Drop(s, 19))

RE_TIMESTAMP(s) ==
  /\ Len(s) >= 20
  /\ AllDigits(SubSeq(s, 1, 4))
  /\ s[5] = "-"
  /\ IsTwoDigits(s, 6) /\ Two(s, 6) >= 1 /\ Two(s, 6) <= 12
  /\ s[8] = "-"
  /\ IsTwoDigits(s, 9) /\ Two(s, 9) >= 1 /\ Two(s, 9) <= 31
  /\ s[11] = "T"
  /\ IsTwoDigits(s, 12) /\ Two(s, 12) <= 23
  /\ s[14] = ":"
  /\ IsTwoDigits(s, 15) /\ Two(s, 15) <= 59
  /\ s[17] = ":"
  /\ IsTwoDigits(s, 18) /\ Two(s, 18) <= 59
  /\ LET Zone(t) == t.ok /\ (t.zone \in {<<"z">>, <<"Z">>} \/ IsNumericOffset(t.zone))
     IN  Zone(TimestampTail(s))

IsLeapYear(y) == (y % 4 = 0 /\ y % 100 # 0) \/ y % 400 = 0

DaysInMonth(y, m) ==
  IF m = 2 THEN (IF IsLeapYear(y) THEN 29 ELSE 28)
  ELSE IF m \in {4, 6, 9, 11} THEN 30 ELSE 31

\* dateutil.parser.parse(tstr) for a text RE_TIMESTAMP matches: ok = FALSE is
\* ParserError (a date the calendar does not have); the fraction is cut to
\* microseconds; the offset is in minutes, 0 for z, Z, +00:00 and -00:00
TimestampOf(s) ==
  LET Make(t, y, mo, d) ==
        [ok |-> y >= 1 /\ d <= DaysInMonth(y, mo),
         value |-> VTimestamp(<<y, mo, d, Two(s, 12), Two(s, 15), Two(s, 18),
                                NatOf(Take(t.frac \o Rep("0", 6), 6))>>,
                              IF Len(t.zone) = 1 THEN 0
                              ELSE (IF t.zone[1] = "-" THEN -1 ELSE 1)
                                   * (60 * Two(t.zone, 2) + Two(t.zone, 5)))]
  IN  Make(TimestampTail(s), NatOf(SubSeq(s, 1, 4)), Two(s, 6), Two(s, 9))

----------------------------------------------------------------------------
(* Exceptions and tokens *)

\* ZishLocationException(line, character, description); arg is the value the
\* description is formatted with
Located(line, character, description, arg) ==
  [exc |-> "ZishLocationException", line |-> line, character |-> character,
   description |-> description, arg |-> arg]

\* ZishException(description)
General(description, arg) ==
  [exc |-> "ZishException", line |-> 0, character |-> 0,
   description |-> description, arg |-> arg]

\* an exception of another class that leaves loads() as it is
Foreign(exc, arg) ==
  [exc |-> exc, line |-> 0, character |-> 0, description |-> "", arg |-> arg]

NoError == [exc |-> "", line |-> 0, character |-> 0, description |-> "", arg |-> VNull]

\* Token = namedtuple("Token", ["token_type", "line", "character", "value"])
Token(token_type, line, character, value) ==
  [token_type |-> token_type, line |-> line, character |-> character, value |-> value]

NoToken == Token(TT_None, 0, 0, VNull)

----------------------------------------------------------------------------
(* lex(): the generator.  Its frame is a record of its local variables;    *)
(* at says where it is suspended: "for" at the top of the for loop waiting *)
(* for the next character, "yield_token" at a yield of the in-token block, *)
(* "yield_single" at the yield of a single-character token, "end" when it  *)
(* has returned or raised.                                                 *)

LexInit ==
  [in_token |-> FALSE, token_type |-> TT_None, payload |-> <<>>,
   line |-> 1, character |-> 1, token_line |-> 0, token_character |-> 0,
   prev_c |-> NoChar, c |-> NoChar, consumed |-> FALSE, at |-> "for"]

\* what running the generator up to its next suspension gives: the frame and
\* kind = "yield" with a token, "raise" with an exception, "stop" when the
\* generator returns, "none" when the for loop asks for the next character
Yield(lx, at, token) ==
  [lx |-> [lx EXCEPT !.at = at], kind |-> "yield", token |-> token, error |-> NoError]

Raise(lx, error) ==
  [lx |-> [lx EXCEPT !.at = "end"], kind |-> "raise", token |-> NoToken, error |-> error]

Continue(lx) == [lx |-> lx, kind |-> "none", token |-> NoToken, error |-> NoError]

YieldPrimitive(lx, value) ==
  Yield(lx, "yield_token", Token(TT_PRIMITIVE, lx.line, lx.character, value))

\* payload.append(c)
PayloadAppend(lx) == Continue([lx EXCEPT !.payload = Append(lx.payload, lx.c)])

\* a faulty LexString: the error of an unterminated string is located where
\* the for loop is, at the end of the input
LexStringLocatedAtEnd(lx) ==
  IF lx.c = QUOTE /\ lx.prev_c # BACKSLASH
  THEN LET Unescaped(u) ==
             IF u.exc = "" THEN YieldPrimitive(lx, VStr(u.s))
             ELSE IF u.exc = "ZishException"
             THEN Raise(lx, General("Can't find a valid string following the first backslash of",
                                    VStr(u.s)))
             ELSE Raise(lx, Foreign(u.exc, VStr(u.s)))
       IN  Unescaped(unescape(lx.payload))
  ELSE IF lx.c = EOF
  THEN Raise(lx, Located(lx.line, lx.character,
                         "Parsing a string but can't find the ending '\"'. The first part of the string is: ",
                         VStr(Take(lx.payload, 10))))
  ELSE PayloadAppend(lx)

\* lines 397-413
LexString(lx) ==
  IF lx.c = QUOTE /\ lx.prev_c # BACKSLASH
  THEN LET Unescaped(u) ==
             IF u.exc = "" THEN YieldPrimitive(lx, VStr(u.s))
             ELSE IF u.exc = "ZishException"
             THEN Raise(lx, General("Can't find a valid string following the first backslash of",
                                    VStr(u.s)))
             ELSE Raise(lx, Foreign(u.exc, VStr(u.s)))
       IN  Unescaped(unescape(lx.payload))
  ELSE IF lx.c = EOF
  THEN Raise(lx, Located(lx.token_line, lx.token_character,
                         "Parsing a string but can't find the ending '\"'. The first part of the string is: ",
                         VStr(Take(lx.payload, 10))))
  ELSE PayloadAppend(lx)

\* lines 415-437
LexBytes(lx) ==
  IF lx.c = APOS
  THEN LET Decoded(text, b) ==
             IF b.exc = "" THEN YieldPrimitive(lx, VBytes(b.bytes))
             ELSE IF b.exc = "binascii.Error"
             THEN Raise(lx, Located(lx.line, lx.character, "binascii.Error", VStr(text)))
             ELSE Raise(lx, Foreign(b.exc, VStr(text)))
           Stripped(text) == Decoded(text, b64decode(text))
       IN  Stripped(Strip(lx.payload))
  ELSE IF lx.c = EOF
  THEN Raise(lx, Located(lx.token_line, lx.token_character,
                         "Parsing bytes but can't find the ending '''. The first part of the bytes is: ",
                         VStr(Take(lx.payload, 10))))
  ELSE PayloadAppend(lx)

\* lines 439-463
LexNoDelim(lx) ==
  IF lx.c = "T"
  THEN Continue([lx EXCEPT !.token_type = TT_TIMESTAMP, !.payload = Append(lx.payload, lx.c)])
  ELSE IF lx.c \in NO_DELIM_END
  THEN LET ustr == lx.payload
       IN  IF ustr = <<"t", "r", "u", "e">> THEN YieldPrimitive(lx, VBool(TRUE))
           ELSE IF ustr = <<"f", "a", "l", "s", "e">> THEN YieldPrimitive(lx, VBool(FALSE))
           ELSE IF ustr = <<"n", "u", "l", "l">> THEN YieldPrimitive(lx, VNull)
           ELSE IF RE_INTEGER(ustr) THEN YieldPrimitive(lx, VInt(IntOf(ustr)))
           ELSE IF RE_DECIMAL(ustr)
           THEN IF DecimalInvalid(ustr) THEN Raise(lx, Foreign("InvalidOperation", VStr(ustr)))
                ELSE YieldPrimitive(lx, DecimalOf(ustr))
           ELSE Raise(lx, Located(lx.line, lx.character, "The value {ustr} is not recognized.",
                                  VStr(ustr)))
  ELSE PayloadAppend(lx)

\* lines 469-488 and 494-513
LexTimestampEnd(lx, tstr) ==
  IF RE_TIMESTAMP(tstr)
  THEN LET Parsed_(t) ==
             IF t.ok THEN YieldPrimitive(lx, t.value)
             ELSE Raise(lx, Located(lx.line, lx.character, "Can't parse the timestamp '{tstr}'.",
                                    VStr(tstr)))
       IN  Parsed_(TimestampOf(tstr))
  ELSE Raise(lx, Located(lx.line, lx.character, "The timestamp {tstr} is not recognized.",
                         VStr(tstr)))

\* a faulty LexTimestamp: any delimiter ends a timestamp, whatever the number
\* of ':' in it
LexTimestampAtAnyDelimiter(lx) ==
  IF lx.c \in {"z", "Z"}
  THEN LexTimestampEnd([lx EXCEPT !.payload = Append(lx.payload, lx.c)],
                       Append(lx.payload, lx.c))
  ELSE IF lx.c \in NO_DELIM_END
  THEN LexTimestampEnd(lx, lx.payload)
  ELSE PayloadAppend(lx)

\* lines 465-522
LexTimestamp(lx) ==
  IF lx.c \in {"z", "Z"}
  THEN LexTimestampEnd([lx EXCEPT !.payload = Append(lx.payload, lx.c)],
                       Append(lx.payload, lx.c))
  ELSE IF Count(lx.payload, ":") = 3 /\ lx.c \in NO_DELIM_END
  THEN LexTimestampEnd(lx, lx.payload)
  ELSE IF lx.c = EOF
  THEN Raise(lx, Located(lx.line, lx.character, "The timestamp {payload} is malformed.",
                         VStr(lx.payload)))
  ELSE PayloadAppend(lx)

\* lines 524-544
LexComment(lx) ==
  IF lx.c = "/" /\ lx.prev_c = "*"
  THEN IF Len(lx.payload) > 2
       THEN Continue([lx EXCEPT !.in_token = FALSE, !.consumed = TRUE])
       ELSE Raise(lx, General("You can't have a comment that's '/*/', an empty comment is '/**/'.",
                              VNull))
  ELSE IF lx.prev_c = "/" /\ Len(lx.payload) = 1 /\ lx.c # "*"
  THEN Raise(lx, Located(lx.line, lx.character, "A comment starts with a '/*'.", VNull))
  ELSE IF lx.c = EOF
  THEN Raise(lx, General("Reached the end of the document without the comment being closed with a '*/'",
                         VNull))
  ELSE PayloadAppend(lx)

\* lines 396-549: the in-token block, up to its yield or raise
LexInToken(lx) ==
  CASE lx.token_type = TT_STRING -> LexString(lx)
    [] lx.token_type = TT_BYTES -> LexBytes(lx)
    [] lx.token_type = TT_NO_DELIM -> LexNoDelim(lx)
    [] lx.token_type = TT_TIMESTAMP -> LexTimestamp(lx)
    [] lx.token_type = TT_COMMENT -> LexComment(lx)
    [] OTHER -> Raise(lx, Foreign("Exception", VInt(lx.token_type)))

\* a faulty AfterYield: the character that ended the token counts as consumed
\* whatever the token was
AfterYieldConsumed(lx) == [lx EXCEPT !.in_token = FALSE, !.consumed = TRUE]

\* the statements that follow a yield of the in-token block, run when the
\* generator is resumed: in_token = False, and consumed = True where the
\* character belongs to the token (lines 402-403, 427-428, 460, 489-490, 514)
AfterYield(lx) ==
  [lx EXCEPT !.in_token = FALSE,
             !.consumed = \/ lx.token_type \in {TT_STRING, TT_BYTES}
                          \/ lx.token_type = TT_TIMESTAMP /\ lx.c \in {"z", "Z"}]

\* a faulty LexDefault: a string or a blob starts on the payload left by the
\* token before it
LexDefaultKeepingPayload(lx) ==
  IF lx.in_token \/ lx.consumed THEN Continue(lx)
  ELSE IF lx.c \in SPACE THEN Continue(lx)
  ELSE IF lx.c \in SINGLE_TOKENS
  THEN Yield(lx, "yield_single",
             Token(SingleTokenType(lx.c), lx.line, lx.character, VStr(<<lx.c>>)))
  ELSE IF lx.c \in {QUOTE, APOS}
  THEN Continue([lx EXCEPT !.token_type = IF lx.c = QUOTE THEN TT_STRING ELSE TT_BYTES,
                           !.in_token = TRUE,
                           !.token_line = lx.line,
                           !.token_character = lx.character])
  ELSE Continue([lx EXCEPT !.token_type = IF lx.c = "/" THEN TT_COMMENT ELSE TT_NO_DELIM,
                           !.in_token = TRUE,
                           !.payload = <<lx.c>>])

\* lines 551-577: the character outside a token
LexDefault(lx) ==
  IF lx.in_token \/ lx.consumed THEN Continue(lx)
  ELSE IF lx.c \in SPACE THEN Continue(lx)
  ELSE IF lx.c \in SINGLE_TOKENS
  THEN Yield(lx, "yield_single",
             Token(SingleTokenType(lx.c), lx.line, lx.character, VStr(<<lx.c>>)))
  ELSE IF lx.c \in {QUOTE, APOS}
  THEN Continue([lx EXCEPT !.token_type = IF lx.c = QUOTE THEN TT_STRING ELSE TT_BYTES,
                           !.in_token = TRUE,
                           !.token_line = lx.line,
                           !.token_character = lx.character,
                           !.payload = <<>>])
  ELSE Continue([lx EXCEPT !.token_type = IF lx.c = "/" THEN TT_COMMENT ELSE TT_NO_DELIM,
                           !.in_token = TRUE,
                           !.payload = <<lx.c>>])

\* line 579 and the end of the for loop: after the sentinel the generator
\* returns
LexEndOfPass(lx) ==
  IF lx.c = EOF
  THEN [lx |-> [lx EXCEPT !.prev_c = lx.c, !.at = "end"],
        kind |-> "stop", token |-> NoToken, error |-> NoError]
  ELSE Continue([lx EXCEPT !.prev_c = lx.c, !.at = "for"])

\* from the end of the in-token block to the next suspension
LexRest(lx) ==
  LET Then(r) == IF r.kind = "none" THEN LexEndOfPass(r.lx) ELSE r
  IN  Then(LexDefault(lx))

\* one pass of the for loop on character c, from line 386 to the first
\* suspension (lines 388-394 set consumed and the position)
LexExamine(lx, c) ==
  LET Then(r) == IF r.kind = "none" THEN LexRest(r.lx) ELSE r
      Body(l1) == Then(IF l1.in_token THEN LexInToken(l1) ELSE Continue(l1))
  IN  Body([lx EXCEPT !.c = c,
                      !.consumed = FALSE,
                      !.line = IF c = LF THEN lx.line + 1 ELSE lx.line,
                      !.character = (IF c = LF THEN 1 ELSE lx.character) + 1])

\* the generator resumed at a yield, up to its next suspension
LexResume(lx) ==
  IF lx.at = "yield_token" THEN LexRest(AfterYield(lx)) ELSE LexEndOfPass(lx)

----------------------------------------------------------------------------
(* Python equality of keys: what "k in val" and "val[k] = v" go by *)

RECURSIVE Pow10(_)
Pow10(k) == IF k <= 0 THEN 1 ELSE 10 * Pow10(k - 1)

IsNumber(v) == TypeOf(v) \in {"bool", "int", "dec", "float"}

\* a float is given by its repr(): nan, inf, -inf, or the decimal text of a
\* finite float, which the model takes for its exact value
IsNan(v) == TypeOf(v) = "float" /\ v[2] = <<"n", "a", "n">>

IsInfinite(v) == TypeOf(v) = "float" /\ v[2] \in {<<"i", "n", "f">>, <<"-", "i", "n", "f">>}

\* a bool, int, Decimal or finite float as (signed coefficient, exponent)
Coefficient(v) ==
  LET Signed(d) == IF d[2] = 1 THEN 0 - d[3] ELSE d[3]
  IN  CASE TypeOf(v) = "bool" -> IF v[2] THEN 1 ELSE 0
        [] TypeOf(v) = "int" -> v[2]
        [] TypeOf(v) = "dec" -> Signed(v)
        [] TypeOf(v) = "float" -> Signed(DecimalOf(v[2]))

Exponent(v) ==
  CASE TypeOf(v) = "dec" -> v[4]
    [] TypeOf(v) = "float" -> DecimalOf(v[2])[4]
    [] OTHER -> 0

NumEq(a, b) ==
  LET m == IF Exponent(a) < Exponent(b) THEN Exponent(a) ELSE Exponent(b)
  IN  IF IsNan(a) \/ IsNan(b) THEN FALSE
      ELSE IF IsInfinite(a) \/ IsInfinite(b) THEN a = b
      ELSE Coefficient(a) * Pow10(Exponent(a) - m) = Coefficient(b) * Pow10(Exponent(b) - m)

\* the days before the first day of year y, and before month m of year y
DaysBeforeYear(y) == 365 * (y - 1) + (y - 1) \div 4 - (y - 1) \div 100 + (y - 1) \div 400

RECURSIVE DaysBeforeMonth(_, _)
DaysBeforeMonth(y, m) ==
  IF m <= 1 THEN 0 ELSE DaysInMonth(y, m - 1) + DaysBeforeMonth(y, m - 1)

\* the instant of an aware datetime in UTC: (day, minute of the day, second,
\* microsecond)
UtcInstant(v) ==
  LET f == v[2]
      day == DaysBeforeYear(f[1]) + DaysBeforeMonth(f[1], f[2]) + f[3]
      minute == 60 * f[4] + f[5] - v[3] + 1440
  IN  <<day - 1 + (minute \div 1440), minute % 1440, f[6], f[7]>>

\* a == b for two values a key can be
PyEq(a, b) ==
  IF IsNumber(a) /\ IsNumber(b) THEN NumEq(a, b)
  ELSE IF TypeOf(a) = "ts" /\ TypeOf(b) = "ts" THEN UtcInstant(a) = UtcInstant(b)
  ELSE a = b

\* k in val
DictHas(val, k) == \E i \in 1..Len(val) : PyEq(val[i][1], k)

\* val[k] = v: an equal key keeps its place and its first spelling
DictSet(val, k, v) ==
  IF DictHas(val, k)
  THEN [i \in 1..Len(val) |-> IF PyEq(val[i][1], k) THEN <<val[i][1], v>> ELSE val[i]]
  ELSE Append(val, <<k, v>>)

----------------------------------------------------------------------------
(* parse() and loads().  The parser is the stack of the parse() calls that *)
(* are waiting for a token, innermost last, under the frame of loads().  A *)
(* frame holds the locals of a list or map branch and the line of the      *)
(* next(tokens) call, or of the nested parse() call, it is waiting in.     *)

Frame(kind, token, at) == [kind |-> kind, val |-> <<>>, k |-> VNull, token |-> token, at |-> at]

\* loads() waits at line 63 for the first token, at line 67 for a second one
ParserInit == [stack |-> <<>>, at |-> "L63", result |-> VNull]

\* what the parser does with a token or with the end of the tokens: kind =
\* "next" when it calls next(tokens) again, "raise" with the exception that
\* leaves loads(), "return" with the value loads() returns
Next_(ps) == [ps |-> ps, kind |-> "next", error |-> NoError, value |-> VNull]

Raised(ps, error) == [ps |-> ps, kind |-> "raise", error |-> error, value |-> VNull]

Returned(ps, value) == [ps |-> ps, kind |-> "return", error |-> NoError, value |-> value]

Top(ps) == ps.stack[Len(ps.stack)]

SetTop(ps, f) == [ps EXCEPT !.stack[Len(ps.stack)] = f]

Pop(ps) == [ps EXCEPT !.stack = SubSeq(ps.stack, 1, Len(ps.stack) - 1)]

VALUE_START == {TT_PRIMITIVE, TT_START_LIST, TT_START_MAP}

\* a faulty ParseReturn: loads() returns the top-level value as soon as parse()
\* hands it back, without asking the generator for a second token
ParseReturnAtOnce(ps, value) ==
  IF ps.stack = <<>> THEN Returned(ps, value)
  ELSE LET f == Top(ps)
       IN  IF f.kind = "list"
           THEN Next_(SetTop(ps, [f EXCEPT !.val = Append(f.val, value), !.at = "L95"]))
           ELSE Next_(SetTop(ps, [f EXCEPT !.val = DictSet(f.val, f.k, value), !.at = "L189"]))

\* a parse() call hands its value back: to loads() (line 63), to the list
\* branch (line 87) or to the map branch (line 180)
ParseReturn(ps, value) ==
  IF ps.stack = <<>> THEN Next_([ps EXCEPT !.result = value, !.at = "L67"])
  ELSE LET f == Top(ps)
       IN  IF f.kind = "list"
           THEN Next_(SetTop(ps, [f EXCEPT !.val = Append(f.val, value), !.at = "L95"]))
           ELSE Next_(SetTop(ps, [f EXCEPT !.val = DictSet(f.val, f.k, value), !.at = "L189"]))

\* parse(token, tokens) is entered: lines 79-83, 111-115, 217-218
ParseCall(ps, token) ==
  IF token.token_type = TT_PRIMITIVE THEN ParseReturn(ps, token.value)
  ELSE IF token.token_type = TT_START_LIST
  THEN Next_([ps EXCEPT !.stack = Append(ps.stack, Frame("list", token, "L84"))])
  ELSE IF token.token_type = TT_START_MAP
  THEN Next_([ps EXCEPT !.stack = Append(ps.stack, Frame("map", token, "L115"))])
  ELSE Raised(ps, General("Don't recognize the token type: {token}.", token.value))

\* a faulty ListHead: a comma where an element is expected is passed over
ListHeadSkippingComma(ps, token) ==
  LET f == [Top(ps) EXCEPT !.token = token]
  IN  IF token.token_type = TT_FINISH_LIST THEN ParseReturn(Pop(ps), VList(f.val))
      ELSE IF token.token_type = TT_COMMA THEN Next_(SetTop(ps, [f EXCEPT !.at = "L97"]))
      ELSE IF token.token_type \in VALUE_START
      THEN ParseCall(SetTop(ps, [f EXCEPT !.at = "L87"]), token)
      ELSE Raised(ps, Located(token.line, token.character,
                              "Expected a value here, but got '{token.value}'.", token.value))

\* lines 85-93 and 109: the head of the list loop with the token just read
ListHead(ps, token) ==
  LET f == [Top(ps) EXCEPT !.token = token]
  IN  IF token.token_type = TT_FINISH_LIST THEN ParseReturn(Pop(ps), VList(f.val))
      ELSE IF token.token_type \in VALUE_START
      THEN ParseCall(SetTop(ps, [f EXCEPT !.at = "L87"]), token)
      ELSE Raised(ps, Located(token.line, token.character,
                              "Expected a value here, but got '{token.value}'.", token.value))

\* lines 95-107: the token after an element
ListAfterValue(ps, token) ==
  LET f == [Top(ps) EXCEPT !.token = token]
  IN  IF token.token_type = TT_COMMA THEN Next_(SetTop(ps, [f EXCEPT !.at = "L97"]))
      ELSE IF token.token_type = TT_FINISH_LIST THEN ListHead(ps, token)
      ELSE Raised(ps, Located(token.line, token.character,
                              "Expected a ',' or a ']' here, but got '{token.value}'.",
                              token.value))

\* a faulty MapHead: null is taken as a key like any other primitive
MapHeadAnyPrimitive(ps, token) ==
  LET f == [Top(ps) EXCEPT !.token = token]
  IN  IF token.token_type = TT_FINISH_MAP THEN ParseReturn(Pop(ps), VMap(f.val))
      ELSE IF token.token_type = TT_PRIMITIVE
      THEN Next_(SetTop(ps, [f EXCEPT !.k = token.value, !.at = "L147"]))
      ELSE IF token.token_type = TT_START_LIST
      THEN Raised(ps, Located(token.line, token.character,
                              "A list can't be a key in a map.", VNull))
      ELSE IF token.token_type = TT_START_MAP
      THEN Raised(ps, Located(token.line, token.character,
                              "A map can't be a key in a map.", VNull))
      ELSE Raised(ps, Located(token.line, token.character,
                              "The token type {token.token_type} isn't recognized.",
                              VInt(token.token_type)))

\* lines 124-147 and 215: the head of the map loop with the token just read
MapHead(ps, token) ==
  LET f == [Top(ps) EXCEPT !.token = token]
  IN  IF token.token_type = TT_FINISH_MAP THEN ParseReturn(Pop(ps), VMap(f.val))
      ELSE IF token.token_type = TT_PRIMITIVE
      THEN IF token.value = VNull
           THEN Raised(ps, Located(token.line, token.character,
                                   "null can't be a key in a map.", VNull))
           ELSE Next_(SetTop(ps, [f EXCEPT !.k = token.value, !.at = "L147"]))
      ELSE IF token.token_type = TT_START_LIST
      THEN Raised(ps, Located(token.line, token.character,
                              "A list can't be a key in a map.", VNull))
      ELSE IF token.token_type = TT_START_MAP
      THEN Raised(ps, Located(token.line, token.character,
                              "A map can't be a key in a map.", VNull))
      ELSE Raised(ps, Located(token.line, token.character,
                              "The token type {token.token_type} isn't recognized.",
                              VInt(token.token_type)))

\* lines 156-164: the token after a key
MapAfterKey(ps, token) ==
  LET f == [Top(ps) EXCEPT !.token = token]
  IN  IF token.token_type # TT_COLON
      THEN Raised(ps, Located(token.line, token.character,
                              "Expected a ':' here, but got '{token.value}'.", token.value))
      ELSE Next_(SetTop(ps, [f EXCEPT !.at = "L164"]))

\* a faulty MapAfterColon: the key is not looked up, so that the value of a
\* repeated key replaces the earlier one
MapAfterColonOverwriting(ps, token) ==
  LET f == [Top(ps) EXCEPT !.token = token]
  IN  IF token.token_type \in VALUE_START
      THEN ParseCall(SetTop(ps, [f EXCEPT !.at = "L180"]), token)
      ELSE Raised(ps, Located(token.line, token.character,
                              "Expected a value here, but got a '{token.value}' instead.",
                              token.value))

\* lines 173-189: the token after the colon
MapAfterColon(ps, token) ==
  LET f == [Top(ps) EXCEPT !.token = token]
  IN  IF token.token_type \in VALUE_START
      THEN IF DictHas(f.val, f.k)
           THEN Raised(ps, Located(token.line, token.character,
                                   "Duplicate map keys aren't allowed: '{k}'.", f.k))
           ELSE ParseCall(SetTop(ps, [f EXCEPT !.at = "L180"]), token)
      ELSE Raised(ps, Located(token.line, token.character,
                              "Expected a value here, but got a '{token.value}' instead.",
                              token.value))

\* lines 196-214: the token after a value
MapAfterValue(ps, token) ==
  LET f == [Top(ps) EXCEPT !.token = token]
  IN  IF token.token_type = TT_COMMA THEN Next_(SetTop(ps, [f EXCEPT !.at = "L198"]))
      ELSE IF token.token_type = TT_FINISH_MAP THEN MapHead(ps, token)
      ELSE Raised(ps, Located(token.line, token.character,
                              "Expected a ',' or a '}' here, but got '{token.value}'.",
                              token.value))

MULTIPLE ==
  "Multiple top-level Zish values aren't allowed. For example, at the top level you can't have a map followed by another map."

\* a faulty ParseToken: loads() asks for no second token, so that what follows
\* the top-level value is passed over
ParseTokenIgnoringRest(ps, token) ==
  IF ps.stack = <<>>
  THEN IF ps.at = "L63" THEN ParseCall(ps, token)
       ELSE Next_(ps)
  ELSE LET at == Top(ps).at
       IN  CASE at \in {"L84", "L97"} -> ListHead(ps, token)
             [] at = "L95" -> ListAfterValue(ps, token)
             [] at \in {"L115", "L198"} -> MapHead(ps, token)
             [] at = "L147" -> MapAfterKey(ps, token)
             [] at = "L164" -> MapAfterColon(ps, token)
             [] at = "L189" -> MapAfterValue(ps, token)

\* next(tokens) gave the parser a token
ParseToken(ps, token) ==
  IF ps.stack = <<>>
  THEN IF ps.at = "L63" THEN ParseCall(ps, token)
       ELSE Raised(ps, Located(token.line, token.character, MULTIPLE, VNull))
  ELSE LET at == Top(ps).at
       IN  CASE at \in {"L84", "L97"} -> ListHead(ps, token)
             [] at = "L95" -> ListAfterValue(ps, token)
             [] at \in {"L115", "L198"} -> MapHead(ps, token)
             [] at = "L147" -> MapAfterKey(ps, token)
             [] at = "L164" -> MapAfterColon(ps, token)
             [] at = "L189" -> MapAfterValue(ps, token)

\* a faulty ParseStop: the map branch answers every StopIteration with the
\* general error of its last handler
ParseStopUnlocated(ps) ==
  IF ps.stack = <<>>
  THEN IF ps.at = "L63" THEN Raised(ps, General("No Zish value found.", VNull))
       ELSE Returned(ps, ps.result)
  ELSE IF Top(ps).kind = "list"
  THEN Raised(ps, General("No Zish value found.", VNull))
  ELSE Raised(ps, General(
         "Reached the end of the document without a map being closed with a '}'.",
         VNull))

\* next(tokens) raised StopIteration: the map branch turns it into an error
\* of its own at each of its calls; the list branch has no handler, so it
\* reaches the handler of loads() at line 64; at line 67 loads() returns
ParseStop(ps) ==
  IF ps.stack = <<>>
  THEN IF ps.at = "L63" THEN Raised(ps, General("No Zish value found.", VNull))
       ELSE Returned(ps, ps.result)
  ELSE LET f == Top(ps)
       IN  CASE f.kind = "list" -> Raised(ps, General("No Zish value found.", VNull))
             [] f.at = "L115" ->
                  Raised(ps, Located(f.token.line, f.token.character,
                    "After this opening '{', a key or a closing '}' was expected, but reached the end of the document instead.",
                    VNull))
             [] f.at = "L147" ->
                  Raised(ps, Located(f.token.line, f.token.character,
                    "After this key, a ':' was expected, but reached the end of the document instead.",
                    VNull))
             [] f.at = "L164" ->
                  Raised(ps, Located(f.token.line, f.token.character,
                    "After this ':', a value was expected, but reached the end of the document instead.",
                    VNull))
             [] f.at = "L189" ->
                  Raised(ps, General(
                    "Reached the end of the document without a map being closed with a '}'.",
                    VNull))
             [] f.at = "L198" ->
                  Raised(ps, Located(f.token.line, f.token.character,
                    "After this ',' a value was expected, but reached the end of the document instead.",
                    VNull))

----------------------------------------------------------------------------
(* The order sorted() puts keys in *)

\* ord(c) for the characters of the model; a character made by chr() that
\* has no entry of its own is put after all of them
Ord(c) ==
  IF c \in Range(Ascii) THEN 31 + (CHOOSE i \in 1..Len(Ascii) : Ascii[i] = c)
  ELSE CASE c = NUL -> 0
         [] c = BEL -> 7
         [] c = BS -> 8
         [] c = TAB -> 9
         [] c = LF -> 10
         [] c = VT -> 11
         [] c = FF -> 12
         [] c = CR -> 13
         [] c = NBSP -> 160
         [] OTHER -> MaxCodePoint

\* a < b for sequences of numbers, as Python orders tuples, str and bytes
RECURSIVE SeqLess(_, _)
SeqLess(a, b) ==
  IF b = <<>> THEN FALSE
  ELSE IF a = <<>> THEN TRUE
  ELSE IF Head(a) # Head(b) THEN Head(a) < Head(b)
  ELSE SeqLess(Tail(a), Tail(b))

Ords(s) == [i \in 1..Len(s) |-> Ord(s[i])]

NumLess(a, b) ==
  LET m == IF Exponent(a) < Exponent(b) THEN Exponent(a) ELSE Exponent(b)
  IN  IF IsNan(a) \/ IsNan(b) THEN FALSE
      ELSE IF IsInfinite(a) THEN a[2][1] = "-" /\ a # b
      ELSE IF IsInfinite(b) THEN b[2][1] # "-"
      ELSE Coefficient(a) * Pow10(Exponent(a) - m) < Coefficient(b) * Pow10(Exponent(b) - m)

\* a < b is defined (does not raise TypeError): numbers with numbers, and
\* str, bytes, aware datetimes and naive datetimes each with their own kind
\* (tuples and frozensets, which order by their elements, are never two of
\* the keys or of the elements of the collections drawn)
Comparable(a, b) ==
  \/ IsNumber(a) /\ IsNumber(b)
  \/ TypeOf(a) = TypeOf(b) /\ TypeOf(a) \in {"str", "bytes", "ts", "naive"}

\* a < b for comparable a and b
PyLess(a, b) ==
  CASE IsNumber(a) -> NumLess(a, b)
    [] TypeOf(a) = "str" -> SeqLess(Ords(a[2]), Ords(b[2]))
    [] TypeOf(a) = "bytes" -> SeqLess(a[2], b[2])
    [] TypeOf(a) = "ts" -> SeqLess(UtcInstant(a), UtcInstant(b))
    [] TypeOf(a) = "naive" -> SeqLess(a[2], b[2])

\* x put into the sorted sequence s; key(e) is what an element is ordered by
RECURSIVE Insert(_, _, _)
Insert(s, x, first) ==
  LET Key(e) == IF first THEN e[1] ELSE e
  IN  IF s = <<>> THEN <<x>>
      ELSE IF PyLess(Key(x), Key(Head(s))) THEN <<x>> \o s
      ELSE <<Head(s)>> \o Insert(Tail(s), x, first)

RECURSIVE InsertionSort(_, _)
InsertionSort(s, first) ==
  IF s = <<>> THEN <<>>
  ELSE Insert(InsertionSort(SubSeq(s, 1, Len(s) - 1), first), s[Len(s)], first)

\* sorted() raises TypeError exactly when two of the things it orders are
\* not comparable
Sortable(keys) == \A i, j \in 1..Len(keys) : i # j => Comparable(keys[i], keys[j])

\* a faulty SortedItems: the items stay in the order they were inserted
ItemsAsInserted(items) == items

\* sorted(obj.items()): the pairs differ in their keys, so the keys order them
SortedItems(items) == InsertionSort(items, TRUE)

\* sorted(obj) for a set
SortedElements(elems) == InsertionSort(elems, FALSE)

----------------------------------------------------------------------------
(* dumps() *)

\* what _dump gives: exc = "" and the text, or the exception it raises
Dumped(s) == [exc |-> "", s |-> s]

DumpRaised(exc, type) == [exc |-> exc, s |-> type]

\* a faulty EscapeStr: the double quotes are escaped, the backslashes are not
\* doubled
RECURSIVE EscapeStrQuotesOnly(_)
EscapeStrQuotesOnly(s) ==
  IF s = <<>> THEN <<>>
  ELSE (IF Head(s) = QUOTE THEN <<BACKSLASH, QUOTE>> ELSE <<Head(s)>>)
       \o EscapeStrQuotesOnly(Tail(s))

\* lines 285-287: backslashes doubled, then double quotes escaped
RECURSIVE EscapeStr(_)
EscapeStr(s) ==
  IF s = <<>> THEN <<>>
  ELSE (IF Head(s) = BACKSLASH THEN <<BACKSLASH, BACKSLASH>>
        ELSE IF Head(s) = QUOTE THEN <<BACKSLASH, QUOTE>>
        ELSE <<Head(s)>>) \o EscapeStr(Tail(s))

_dump_str(obj) == <<QUOTE>> \o EscapeStr(obj) \o <<QUOTE>>

\* lines 274-282 on the repr() of the float
_dump_float(repr) == IF repr = <<"i", "n", "f">> THEN <<"+">> \o repr ELSE repr

\* a number in at least n digits
Padded(k, n) == LET ds == DigitsOf(k) IN Rep("0", n - Len(ds)) \o ds

\* "%Y-%m-%dT%H:%M:%S" of the fields of a datetime
DateTimeText(f) ==
  Padded(f[1], 4) \o <<"-">> \o Padded(f[2], 2) \o <<"-">> \o Padded(f[3], 2) \o <<"T">>
  \o Padded(f[4], 2) \o <<":">> \o Padded(f[5], 2) \o <<":">> \o Padded(f[6], 2)

\* datetime.isoformat(); an aware datetime shows its offset
IsoFormat(f, off, aware) ==
  LET a == IF off < 0 THEN 0 - off ELSE off
  IN  DateTimeText(f)
      \o (IF f[7] = 0 THEN <<>> ELSE <<".">> \o Padded(f[7], 6))
      \o (IF aware
          THEN <<IF off < 0 THEN "-" ELSE "+">> \o Padded(a \div 60, 2) \o <<":">>
               \o Padded(a % 60, 2)
          ELSE <<>>)

\* lines 331-338
dump_datetime(obj) ==
  IF obj[3] = 0 THEN DateTimeText(obj[2]) \o <<"Z">> ELSE IsoFormat(obj[2], obj[3], TRUE)

\* _dump(obj, indent); indent is the number of spaces
RECURSIVE _dump(_, _)
\* the joined "\n{new_indent}{_dump(v, new_indent)}," of the elements of a list
RECURSIVE DumpElements(_, _)
\* the joined "\n{new_indent}{_dump(k, new_indent)}: {_dump(v, new_indent)}," of
\* the items of a map
RECURSIVE DumpItems(_, _)

\* a faulty DumpElements: the elements after the first lose their indentation
DumpElementsUnindented(elems, new_indent) ==
  LET Join(d, r) ==
        IF d.exc # "" THEN d
        ELSE IF r.exc # "" THEN r
        ELSE Dumped(<<LF>> \o Rep(SP, new_indent) \o d.s \o <<",">> \o r.s)
  IN  IF elems = <<>> THEN Dumped(<<>>)
      ELSE Join(_dump(Head(elems), new_indent), DumpElements(Tail(elems), 0))

DumpElements(elems, new_indent) ==
  LET Join(d, r) ==
        IF d.exc # "" THEN d
        ELSE IF r.exc # "" THEN r
        ELSE Dumped(<<LF>> \o Rep(SP, new_indent) \o d.s \o <<",">> \o r.s)
  IN  IF elems = <<>> THEN Dumped(<<>>)
      ELSE Join(_dump(Head(elems), new_indent), DumpElements(Tail(elems), new_indent))

DumpItems(items, new_indent) ==
  LET Join(k, v, r) ==
        IF k.exc # "" THEN k
        ELSE IF v.exc # "" THEN v
        ELSE IF r.exc # "" THEN r
        ELSE Dumped(<<LF>> \o Rep(SP, new_indent) \o k.s \o <<":", SP>> \o v.s
                    \o <<",">> \o r.s)
  IN  IF items = <<>> THEN Dumped(<<>>)
      ELSE Join(_dump(Head(items)[1], new_indent), _dump(Head(items)[2], new_indent),
                DumpItems(Tail(items), new_indent))

\* lines 290-340; the order of the cases is the order of the isinstance tests
_dump(obj, indent) ==
  LET Bracketed(open, b, close) ==
        IF b.exc # "" THEN b
        ELSE IF b.s = <<>> THEN Dumped(<<open, close>>)
        ELSE Dumped(<<open>> \o b.s \o <<LF>> \o Rep(SP, indent) \o <<close>>)
      Keys(items) == [i \in 1..Len(items) |-> items[i][1]]
  IN  CASE TypeOf(obj) = "map" ->
             Bracketed("{", DumpItems(IF Sortable(Keys(obj[2])) THEN SortedItems(obj[2])
                                      ELSE obj[2], indent + 2), "}")
        [] TypeOf(obj) = "bool" -> Dumped(IF obj[2] THEN <<"t", "r", "u", "e">>
                                          ELSE <<"f", "a", "l", "s", "e">>)
        [] TypeOf(obj) \in {"list", "tuple"} ->
             Bracketed("[", DumpElements(obj[2], indent + 2), "]")
        [] TypeOf(obj) \in {"set", "frozenset"} ->
             IF ~Sortable(obj[2]) THEN DumpRaised("TypeError", TypeOf(obj))
             ELSE Bracketed("[", DumpElements(SortedElements(obj[2]), indent + 2), "]")
        [] TypeOf(obj) = "int" -> Dumped(StrOfInt(obj[2]))
        [] TypeOf(obj) = "float" -> Dumped(_dump_float(obj[2]))
        [] TypeOf(obj) = "dec" -> Dumped(StrOfDecimal(obj))
        [] TypeOf(obj) = "null" -> Dumped(<<"n", "u", "l", "l">>)
        [] TypeOf(obj) = "str" -> Dumped(_dump_str(obj[2]))
        [] TypeOf(obj) \in {"bytes", "bytearray"} ->
             Dumped(<<APOS>> \o b64encode(obj[2]) \o <<APOS>>)
        [] TypeOf(obj) = "naive" ->
             Dumped(IsoFormat(obj[2], 0, FALSE) \o <<"-", "0", "0", ":", "0", "0">>)
        [] TypeOf(obj) = "ts" -> Dumped(dump_datetime(obj))
        [] OTHER -> DumpRaised("ZishException", TypeOf(obj))

\* dumps(obj)
dumps(obj) == _dump(obj, 0)

----------------------------------------------------------------------------
(* The run of loads(zish_str) *)

VARIABLES
  zish_str,  \* the text given to loads(), as far as it is known
  closed,    \* the text is complete: the sentinel follows its last character
  pos,       \* how many items of chain(zish_str, (None,)) the for loop has taken
  lx,        \* the frame of the generator lex()
  ps,        \* the frames of parse() and loads()
  pc,        \* who runs next: "lex", "resume", "token", "stop" or "done"; for
             \* dumps() and unescape() alone: "dump", "escape", "unescape"
  token,     \* the token the generator yielded last
  tokens,    \* history: every token yielded, with the index of its last character
  outcome,   \* how loads() ended
  obj,       \* the value dumps() was given to make the text
  first,     \* how loads() ended on the text before it was edited
  edit       \* the edit made to the text

vars == <<zish_str, closed, pos, lx, ps, pc, token, tokens, outcome, obj, first, edit>>

NoOutcome == [kind |-> "none", error |-> NoError, value |-> VNull]

RaisedOutcome(error) == [kind |-> "raise", error |-> error, value |-> VNull]

ReturnedOutcome(value) == [kind |-> "return", error |-> NoError, value |-> value]

NoEdit == [kind |-> "none", at |-> 0, text |-> <<>>]

\* loads(text) is called: line 61 makes the generator, line 63 asks it for the
\* first token
Call(text, complete) ==
  /\ zish_str = text
  /\ closed = complete
  /\ pos = 0
  /\ lx = LexInit
  /\ ps = ParserInit
  /\ pc = "lex"
  /\ token = NoToken
  /\ tokens = <<>>
  /\ outcome = NoOutcome

\* the index in the text of the last character of the token yielded when
\* character number i is examined: a bare literal and a timestamp with a numeric
\* offset end before the delimiter that is being examined
LastOf(l, i) ==
  IF l.at = "yield_token" /\ (\/ l.token_type = TT_NO_DELIM
                              \/ l.token_type = TT_TIMESTAMP /\ l.c \notin {"z", "Z"})
  THEN i - 1 ELSE i

\* the generator ran to its next suspension with result r, having taken i items
Lexed(r, i) ==
  /\ lx' = r.lx
  /\ pos' = i
  /\ CASE r.kind = "yield" ->
            /\ pc' = "token"
            /\ token' = r.token
            /\ tokens' = Append(tokens, [token |-> r.token, last |-> LastOf(r.lx, i)])
            /\ outcome' = outcome
       [] r.kind = "raise" ->
            /\ pc' = "done"
            /\ outcome' = RaisedOutcome(r.error)
            /\ UNCHANGED <<token, tokens>>
       [] r.kind = "stop" ->
            /\ pc' = "stop"
            /\ UNCHANGED <<token, tokens, outcome>>
       [] r.kind = "none" ->
            /\ pc' = "lex"
            /\ UNCHANGED <<token, tokens, outcome>>
  /\ UNCHANGED <<zish_str, closed, ps, obj, first, edit>>

\* line 386: the for loop takes the next character, or the sentinel after the
\* last one, and runs its body to the next yield, raise or end of the pass
Examine ==
  /\ pc = "lex"
  /\ pos < Len(zish_str) \/ (pos = Len(zish_str) /\ closed)
  /\ LET c == IF pos < Len(zish_str) THEN zish_str[pos + 1] ELSE EOF
     IN  Lexed(LexExamine(lx, c), pos + 1)

\* next(tokens) resumes the generator where it yielded
Resume ==
  /\ pc = "resume"
  /\ Lexed(LexResume(lx), pos)

\* the parser ran with result r
Parsed(r) ==
  /\ ps' = r.ps
  /\ CASE r.kind = "next" -> pc' = "resume" /\ outcome' = outcome
       [] r.kind = "raise" -> pc' = "done" /\ outcome' = RaisedOutcome(r.error)
       [] r.kind = "return" -> pc' = "done" /\ outcome' = ReturnedOutcome(r.value)
  /\ UNCHANGED <<zish_str, closed, pos, lx, token, tokens, obj, first, edit>>

\* next(tokens) returns a token to parse() or to loads()
ParseTok ==
  /\ pc = "token"
  /\ Parsed(ParseToken(ps, token))

\* next(tokens) raises StopIteration in parse() or in loads()
ParseEnd ==
  /\ pc = "stop"
  /\ Parsed(ParseStop(ps))

----------------------------------------------------------------------------
(* Spec: loads() on every text made of at most MaxChars characters of the  *)
(* lexemes below.  The text is revealed to the model piece by piece, as    *)
(* the for loop of lex() comes to it.                                      *)

MaxChars == 6

Lexemes ==
  { <<"{">>, <<"}">>, <<"[">>, <<"]">>, <<":">>, <<",">>, <<SP>>, <<LF>>,
    <<"1">>, <<"n", "u", "l", "l">>,
    <<QUOTE, "a", QUOTE>>, <<QUOTE, BACKSLASH, "x", QUOTE>>,
    <<APOS, "A", "Q", "=", "=", APOS>>,
    <<"/", "*", "/">>, <<"/", "*", "*", "/">> }

Init ==
  /\ Call(<<>>, FALSE)
  /\ obj = VNull
  /\ first = NoOutcome
  /\ edit = NoEdit

\* the text goes on with one more lexeme
Extend(lexeme) ==
  /\ pc = "lex"
  /\ ~closed
  /\ pos = Len(zish_str)
  /\ Len(zish_str) + Len(lexeme) <= MaxChars
  /\ zish_str' = zish_str \o lexeme
  /\ UNCHANGED <<closed, pos, lx, ps, pc, token, tokens, outcome, obj, first, edit>>

\* the text ends here
Close ==
  /\ pc = "lex"
  /\ ~closed
  /\ pos = Len(zish_str)
  /\ closed' = TRUE
  /\ UNCHANGED <<zish_str, pos, lx, ps, pc, token, tokens, outcome, obj, first, edit>>

Next ==
  \/ \E lexeme \in Lexemes : Extend(lexeme)
  \/ Close
  \/ Examine
  \/ Resume
  \/ ParseTok
  \/ ParseEnd

Spec == Init /\ [][Next]_vars

----------------------------------------------------------------------------
(* Values that loads() can return, up to a number of nodes *)

\* one node for every value, and one for every key of a map
RECURSIVE Nodes(_)
RECURSIVE SumNodes(_)
SumNodes(s) == IF s = <<>> THEN 0 ELSE Nodes(Head(s)) + SumNodes(Tail(s))

Nodes(v) ==
  CASE TypeOf(v) = "list" -> 1 + SumNodes(v[2])
    [] TypeOf(v) = "map" -> 1 + Len(v[2]) + SumNodes([i \in 1..Len(v[2]) |-> v[2][i][2]])
    [] OTHER -> 1

\* the values of at most n nodes whose primitives are in atoms; a key is a
\* primitive other than null, and no two keys of a map are equal
RECURSIVE ValuesOf(_, _)
RECURSIVE SeqsOf(_, _)
RECURSIVE EntriesOf(_, _)
ValuesOf(atoms, n) ==
  IF n <= 0 THEN {}
  ELSE atoms \cup {VList(s) : s \in SeqsOf(atoms, n - 1)}
             \cup {VMap(e) : e \in EntriesOf(atoms, n - 1)}

SeqsOf(atoms, n) ==
  {<<>>} \cup UNION {{<<x>> \o s : s \in SeqsOf(atoms, n - Nodes(x))} : x \in ValuesOf(atoms, n)}

EntriesOf(atoms, n) ==
  {<<>>} \cup UNION {{<<<<kx[1], kx[2]>>>> \o e :
                        e \in {d \in EntriesOf(atoms, n - 1 - Nodes(kx[2])) : ~DictHas(d, kx[1])}} :
                     kx \in (atoms \ {VNull}) \X ValuesOf(atoms, n - 1)}

\* structural equality: the same variant and the same content at every level;
\* the entries of a map are compared whatever their order
RECURSIVE ValueEq(_, _)
ValueEq(a, b) ==
  /\ TypeOf(a) = TypeOf(b)
  /\ CASE TypeOf(a) = "list" ->
            /\ Len(a[2]) = Len(b[2])
            /\ \A i \in 1..Len(a[2]) : ValueEq(a[2][i], b[2][i])
       [] TypeOf(a) = "map" ->
            /\ Len(a[2]) = Len(b[2])
            /\ \A i \in 1..Len(a[2]) : \E j \in 1..Len(b[2]) :
                 ValueEq(a[2][i][1], b[2][j][1]) /\ ValueEq(a[2][i][2], b[2][j][2])
       [] OTHER -> a = b

----------------------------------------------------------------------------
(* SpecDoc: loads(dumps(obj)) for every value obj of at most MaxNodes nodes *)
(* over the primitives below.                                              *)

MaxNodes == 3

DocAtoms ==
  { VNull, VBool(TRUE), VInt(1), VInt(-20), VDec(0, 15, -1), VDec(0, 0, 0), VDec(1, 0, 0),
    VStr(<<"a">>), VStr(<<QUOTE>>), VStr(<<"a", BACKSLASH>>), VBytes(<<1>>),
    VTimestamp(<<2000, 1, 2, 3, 4, 5, 0>>, 0),
    VTimestamp(<<2000, 1, 2, 3, 4, 5, 250000>>, 0),
    VTimestamp(<<2000, 1, 2, 3, 4, 5, 250000>>, -90) }

\* loads() is called on the text dumps() makes of a value
DocInit(values) ==
  \E v \in values :
    /\ obj = v
    /\ Call(dumps(v).s, TRUE)
    /\ first = NoOutcome
    /\ edit = NoEdit

InitDoc == DocInit(ValuesOf(DocAtoms, MaxNodes))

NextDoc == Examine \/ Resume \/ ParseTok \/ ParseEnd

SpecDoc == InitDoc /\ [][NextDoc]_vars

----------------------------------------------------------------------------
(* SpecEdit and SpecComma: loads() on a text that loads() has returned a   *)
(* value for, after one edit of the text.                                  *)

MaxEditNodes == 3

EditAtoms ==
  { VNull, VInt(1), VStr(<<"a">>), VBytes(<<1>>),
    VTimestamp(<<2000, 1, 2, 3, 4, 5, 0>>, 0),
    VTimestamp(<<2000, 1, 2, 3, 4, 5, 0>>, 60) }

InitEdit == DocInit(ValuesOf(EditAtoms, MaxEditNodes))

\* loads() is called again, on the edited text
Again(text, e) ==
  /\ pc = "done"
  /\ outcome.kind = "return"
  /\ edit = NoEdit
  /\ edit' = e
  /\ first' = outcome
  /\ zish_str' = text
  /\ pos' = 0
  /\ lx' = LexInit
  /\ ps' = ParserInit
  /\ pc' = "lex"
  /\ token' = NoToken
  /\ tokens' = <<>>
  /\ outcome' = NoOutcome
  /\ UNCHANGED <<closed, obj>>

\* the places between tokens: before the first token and right after each token
Gaps == {0} \cup {tokens[i].last : i \in 1..Len(tokens)}

\* runs of whitespace and block comments
Fillers ==
  { <<TAB>>, <<LF>>, <<VT>>, <<FF>>, <<CR>>, <<SP>>, <<NBSP>>,
    <<SP, LF, TAB, CR, NBSP, VT, FF>>,
    <<"/", "*", "*", "/">>, <<"/", "*", "x", "*", "/">>, <<"/", "*", "*", "*", "/">>,
    <<"/", "*", "/", "x", "*", "/">> }

\* whitespace or a comment is put between two tokens, before the first or
\* after the last
InsertFiller ==
  \E p \in Gaps, f \in Fillers :
    Again(Take(zish_str, p) \o f \o Drop(zish_str, p), [kind |-> "filler", at |-> p, text |-> f])

NextEdit == Examine \/ Resume \/ ParseTok \/ ParseEnd \/ InsertFiller

SpecEdit == InitEdit /\ [][NextEdit]_vars

\* the token numbers of the commas that stand right before a closing bracket
TrailingCommas ==
  {i \in 1..(Len(tokens) - 1) :
     /\ tokens[i].token.token_type = TT_COMMA
     /\ tokens[i + 1].token.token_type \in {TT_FINISH_LIST, TT_FINISH_MAP}}

\* a trailing comma is taken out
DropComma ==
  \E i \in TrailingCommas :
    Again(Take(zish_str, tokens[i].last - 1) \o Drop(zish_str, tokens[i].last),
          [kind |-> "drop", at |-> tokens[i].last, text |-> <<",">>])

\* the token numbers of the tokens after which a value or a key is expected
BeforeValueOrKey ==
  {i \in 1..Len(tokens) :
     tokens[i].token.token_type \in {TT_START_LIST, TT_START_MAP, TT_COLON, TT_COMMA}}

\* a comma is put where a value or a key is expected: right after an opening
\* bracket, a colon or a comma
InsertComma ==
  \E i \in BeforeValueOrKey :
    Again(Take(zish_str, tokens[i].last) \o <<",">> \o Drop(zish_str, tokens[i].last),
          [kind |-> "comma", at |-> tokens[i].last, text |-> <<",">>])

NextComma == Examine \/ Resume \/ ParseTok \/ ParseEnd \/ DropComma \/ InsertComma

SpecComma == InitEdit /\ [][NextComma]_vars

----------------------------------------------------------------------------
(* SpecMap: loads() on the text of a map of at most MaxEntries entries     *)
(* whose keys and values are written as dumps() writes the values below;   *)
(* several keys are equal to one another.                                  *)

MaxEntries == 2

MapKeys ==
  { VInt(1), VDec(0, 10, -1), VBool(TRUE), VStr(<<"a">>), VBytes(<<1>>),
    VTimestamp(<<2000, 1, 2, 0, 30, 5, 0>>, 60),
    VTimestamp(<<2000, 1, 1, 22, 30, 5, 0>>, -60) }

MapValues == { VInt(2), VList(<<>>), VMap(<<<<VInt(1), VNull>>>>) }

\* the texts of the entries: key, colon, value, comma
EntryTexts ==
  {dumps(k).s \o <<":">> \o dumps(v).s \o <<",">> : k \in MapKeys, v \in MapValues}

\* the texts of at most n entries in a row
RECURSIVE EntryRuns(_)
EntryRuns(n) ==
  IF n = 0 THEN {<<>>}
  ELSE {<<>>} \cup {e \o r : e \in EntryTexts, r \in EntryRuns(n - 1)}

InitMap ==
  \E r \in EntryRuns(MaxEntries) :
    /\ Call(<<"{">> \o r \o <<"}">>, TRUE)
    /\ obj = VNull
    /\ first = NoOutcome
    /\ edit = NoEdit

NextMap == Examine \/ Resume \/ ParseTok \/ ParseEnd

SpecMap == InitMap /\ [][NextMap]_vars

----------------------------------------------------------------------------
(* Properties of loads() and dumps().  The vocabulary first: predicates on *)
(* values and on the state in which loads() has ended.                     *)

\* loads() has ended this call
Ended == pc = "done"

\* loads() has ended by raising the general error of lines 64-65
NoValueFound ==
  /\ outcome.kind = "raise"
  /\ outcome.error = General("No Zish value found.", VNull)

\* the generator returned: the for loop ran past the end of the text
Exhausted == lx.at = "end" /\ lx.prev_c = EOF

\* s is the beginning of t
IsPrefix(s, t) == Len(s) <= Len(t) /\ SubSeq(t, 1, Len(s)) = s

\* no map of v, at any depth, has a key that is null, a list or a map
RECURSIVE LegalKeys(_)
LegalKeys(v) ==
  CASE TypeOf(v) = "list" -> \A i \in 1..Len(v[2]) : LegalKeys(v[2][i])
    [] TypeOf(v) = "map" ->
         \A i \in 1..Len(v[2]) :
           /\ TypeOf(v[2][i][1]) \notin {"null", "list", "map"}
           /\ LegalKeys(v[2][i][2])
    [] OTHER -> TRUE

\* no map of v, at any depth, has two keys that are equal
RECURSIVE DistinctKeys(_)
DistinctKeys(v) ==
  CASE TypeOf(v) = "list" -> \A i \in 1..Len(v[2]) : DistinctKeys(v[2][i])
    [] TypeOf(v) = "map" ->
         /\ \A i, j \in 1..Len(v[2]) : i # j => ~PyEq(v[2][i][1], v[2][j][1])
         /\ \A i \in 1..Len(v[2]) : DistinctKeys(v[2][i][2])
    [] OTHER -> TRUE

\* the token just yielded is refused with a located error at its own position
RefusedAtToken(description, arg) ==
  /\ pc' = "done"
  /\ outcome' = RaisedOutcome(Located(token.line, token.character, description, arg))

----------------------------------------------------------------------------
\* C1: round trip. For every value obj that loads() can return, loads(dumps(obj))
\* returns a value structurally equal to obj.
C1_RoundTrip ==
  Ended => outcome.kind = "return" /\ ValueEq(outcome.value, obj)

\* C2: idempotent canonicalization. For every value obj that loads() can
\* return, dumps(loads(dumps(obj))) succeeds and is, character for character,
\* dumps(obj), the text loads() was called on.
C2_Canonical ==
  Ended => outcome.kind = "return" /\ dumps(outcome.value) = Dumped(zish_str)

\* C3: whitespace and comment insensitivity. When loads() returned a value for
\* a text, it returns the same value for the text with a run of whitespace or
\* a block comment put between two tokens, before the first or after the last.
C3_FillerInsensitive ==
  Ended /\ edit.kind = "filler" => outcome = first

\* C4: two-tier taxonomy. Whatever the text, loads() returns a value or raises
\* ZishLocationException or ZishException; no other exception leaves it.
C4_Taxonomy ==
  Ended /\ outcome.kind = "raise" =>
    outcome.error.exc \in {"ZishLocationException", "ZishException"}

\* C5: the general errors. When loads() raises a ZishException that is not
\* located, it is for an empty document, for a comment left open at the end of
\* the text, for an unresolved backslash escape, or for the end of the text
\* right after a complete key/value pair of an unclosed map.
C5_GeneralErrors ==
  Ended /\ outcome.kind = "raise" /\ outcome.error.exc = "ZishException" =>
    \/ NoValueFound /\ tokens = <<>> /\ Exhausted
    \/ /\ outcome.error.description =
            "Reached the end of the document without the comment being closed with a '*/'"
       /\ lx.c = EOF
    \/ outcome.error.description =
         "Can't find a valid string following the first backslash of"
    \/ /\ outcome.error.description =
            "Reached the end of the document without a map being closed with a '}'."
       /\ Exhausted
       /\ Top(ps).at = "L189"

\* C6: loads() raises the general error 'No Zish value found.' exactly when the
\* tokens are exhausted before any token was read; once the lexer has yielded
\* a token, loads() never ends with this error.
C6_NoValueFound ==
  Ended => (NoValueFound <=> (tokens = <<>> /\ Exhausted))

\* C7: single top-level value. A token that arrives after the top-level value
\* is complete makes loads() raise the located 'Multiple top-level Zish
\* values' error at that token's line and character, and loads() returns its
\* value only when the tokens are exhausted right after the first value.
C7_SingleTopLevelValue ==
  /\ [][(pc = "token" /\ ps.stack = <<>> /\ ps.at = "L67")
          => RefusedAtToken(MULTIPLE, VNull)]_vars
  /\ [](Ended /\ outcome.kind = "return"
          => /\ Exhausted
             /\ pos = Len(zish_str) + 1
             /\ ps.stack = <<>>
             /\ ps.at = "L67"
             /\ outcome.value = ps.result)

\* loads() refused a second top-level token
C7_Witness ==
  /\ Ended
  /\ outcome.kind = "raise"
  /\ outcome.error.description = MULTIPLE
  /\ Len(tokens) >= 2
  /\ outcome.error.line = token.line
  /\ outcome.error.character = token.character

\* C8: duplicate keys. In a map, when a key equal to one already inserted has
\* been followed by ':' and a token that starts a value arrives, loads()
\* raises the located 'Duplicate map keys' error at that token before
\* anything more is read; the entries of a map under construction are only
\* ever added to, and a map loads() returns has no two equal keys.
C8_DuplicateKeys ==
  /\ [][(/\ pc = "token"
         /\ ps.stack # <<>>
         /\ Top(ps).kind = "map"
         /\ Top(ps).at = "L164"
         /\ token.token_type \in VALUE_START
         /\ \E i \in 1..Len(Top(ps).val) : PyEq(Top(ps).val[i][1], Top(ps).k))
          => /\ RefusedAtToken("Duplicate map keys aren't allowed: '{k}'.", Top(ps).k)
             /\ pos' = pos
             /\ ps' = ps]_vars
  /\ [][\A d \in 1..Len(ps.stack) :
          d <= Len(ps'.stack) => IsPrefix(ps.stack[d].val, ps'.stack[d].val)]_vars
  /\ [](Ended /\ outcome.kind = "return" => DistinctKeys(outcome.value))

\* loads() refused a key that equals an earlier key of the same map
C8_Witness ==
  /\ Ended
  /\ outcome.kind = "raise"
  /\ outcome.error.description = "Duplicate map keys aren't allowed: '{k}'."
  /\ token.token_type \in VALUE_START
  /\ Len(Top(ps).val) >= 1
  /\ outcome.error.arg # Top(ps).val[1][1]
  /\ PyEq(outcome.error.arg, Top(ps).val[1][1])

\* C9: legal keys. No map of a value loads() returns, at any depth, has a key
\* that is null, a list or a map.  Where a key is expected, null, '[' and '{'
\* each raise a located error of their own at the token, and ':', ',' and ']'
\* raise the located 'The token type <n> isn't recognized.' at the token.
C9_KeyLegality ==
  /\ [](Ended /\ outcome.kind = "return" => LegalKeys(outcome.value))
  /\ [][(pc = "token" /\ ps.stack # <<>> /\ Top(ps).at \in {"L115", "L198"})
          => CASE token.token_type = TT_PRIMITIVE /\ token.value = VNull ->
                    RefusedAtToken("null can't be a key in a map.", VNull)
               [] token.token_type = TT_START_LIST ->
                    RefusedAtToken("A list can't be a key in a map.", VNull)
               [] token.token_type = TT_START_MAP ->
                    RefusedAtToken("A map can't be a key in a map.", VNull)
               [] token.token_type \in {TT_COLON, TT_COMMA, TT_FINISH_LIST} ->
                    RefusedAtToken("The token type {token.token_type} isn't recognized.",
                                   VInt(token.token_type))
               [] OTHER -> TRUE]_vars

\* loads() refused a second comma in a row where a key was expected
C9_Witness ==
  /\ Ended
  /\ outcome.kind = "raise"
  /\ outcome.error.description = "The token type {token.token_type} isn't recognized."
  /\ outcome.error.arg = VInt(TT_COMMA)
  /\ Top(ps).at = "L198"

----------------------------------------------------------------------------
(* SpecLit: loads() on the texts made of at most MaxPieces of the pieces   *)
(* below: bare literals, well formed and not, and what ends them.          *)

MaxPieces == 3

\* the texts made of at most n of the pieces in a row
RECURSIVE Runs(_, _)
Runs(pieces, n) ==
  IF n = 0 THEN {<<>>}
  ELSE {<<>>} \cup {p \o r : p \in pieces, r \in Runs(pieces, n - 1)}

LitPieces ==
  { <<"t", "r", "u", "e">>, <<"f", "a", "l", "s", "e">>, <<"n", "u", "l", "l">>,
    <<"-">>, <<"+">>, <<"0">>, <<"1">>, <<"2", "3">>, <<".">>, <<"e">>, <<"E">>, <<"d">>,
    <<"_">>, <<"x">>, <<"T">>, <<",">>, <<SP>>,
    <<"e", "1", "0", "0", "0", "0", "0", "0", "0", "0", "0",
      "0", "0", "0", "0", "0", "0", "0", "0", "0", "0">> }

\* loads() is called on a complete text
TextInit(texts) ==
  \E t \in texts :
    /\ Call(t, TRUE)
    /\ obj = VNull
    /\ first = NoOutcome
    /\ edit = NoEdit

InitLit == TextInit(Runs(LitPieces, MaxPieces))

NextLit == Examine \/ Resume \/ ParseTok \/ ParseEnd

SpecLit == InitLit /\ [][NextLit]_vars

----------------------------------------------------------------------------
\* the character the for loop of lex() examines next
NextChar == IF pos < Len(zish_str) THEN zish_str[pos + 1] ELSE EOF

\* what ends a bare literal: whitespace, a structural character, '/', the end
\* of the text
LiteralEnd ==
  {TAB, LF, VT, FF, CR, SP, NBSP, "{", "}", "[", "]", ":", ",", "/", EOF}

DecimalDigit == {"0", "1", "2", "3", "4", "5", "6", "7", "8", "9"}

\* s is a run of decimal digits, possibly empty
DigitRun(s) == \A i \in 1..Len(s) : s[i] \in DecimalDigit

\* 0|[1-9]digit*
IntegerPart(s) == s # <<>> /\ DigitRun(s) /\ (s[1] = "0" => Len(s) = 1)

\* s without the '-' it may begin with
Magnitude(s) == IF s # <<>> /\ s[1] = "-" THEN SubSeq(s, 2, Len(s)) ELSE s

\* the integer grammar -?(0|[1-9]digit*)
IntegerGrammar(s) == IntegerPart(Magnitude(s))

\* nothing, or '.' and zero or more digits
FractionPart(s) == s = <<>> \/ (s[1] = "." /\ DigitRun(SubSeq(s, 2, Len(s))))

\* nothing, or e/E, an optional sign and one or more digits
ExponentPart(s) ==
  \/ s = <<>>
  \/ /\ Len(s) >= 2
     /\ s[1] \in {"e", "E"}
     /\ \/ Len(s) >= 3 /\ s[2] \in {"+", "-"} /\ DigitRun(SubSeq(s, 3, Len(s)))
        \/ DigitRun(SubSeq(s, 2, Len(s)))

\* the decimal grammar: integer part, optional fraction, optional exponent
DecimalGrammar(s) ==
  \E a, b \in 0..Len(Magnitude(s)) :
    /\ a <= b
    /\ IntegerPart(SubSeq(Magnitude(s), 1, a))
    /\ FractionPart(SubSeq(Magnitude(s), a + 1, b))
    /\ ExponentPart(SubSeq(Magnitude(s), b + 1, Len(Magnitude(s))))

\* the generator yields a primitive token of the given type of value
YieldsA(type) ==
  /\ pc' = "token"
  /\ token'.token_type = TT_PRIMITIVE
  /\ TypeOf(token'.value) = type

\* the generator yields the primitive token of the given value
YieldsValue(value) ==
  /\ pc' = "token"
  /\ token'.token_type = TT_PRIMITIVE
  /\ token'.value = value

\* the lexer is in a bare literal and examines what ends it
LiteralEnds ==
  /\ pc = "lex"
  /\ lx.in_token
  /\ lx.token_type = TT_NO_DELIM
  /\ NextChar \in LiteralEnd

\* C11: bare-literal classification. When a bare literal reaches a delimiter,
\* its text gives true, false or null when it is one of these words, else an
\* Int when it matches the integer grammar, else a Decimal when it matches the
\* decimal grammar, else the located error 'The value <text> is not
\* recognized.'; '0' and '-0' are Int 0, '0.', '0e0' and '0E0' are Decimal.
C11_Classification ==
  [][LiteralEnds =>
       CASE lx.payload = <<"t", "r", "u", "e">> -> YieldsValue(VBool(TRUE))
         [] lx.payload = <<"f", "a", "l", "s", "e">> -> YieldsValue(VBool(FALSE))
         [] lx.payload = <<"n", "u", "l", "l">> -> YieldsValue(VNull)
         [] lx.payload \in {<<"0">>, <<"-", "0">>} -> YieldsValue(VInt(0))
         [] IntegerGrammar(lx.payload) -> YieldsA("int")
         [] DecimalGrammar(lx.payload) -> YieldsA("dec")
         [] OTHER ->
              /\ pc' = "done"
              /\ outcome'.kind = "raise"
              /\ outcome'.error.exc = "ZishLocationException"
              /\ outcome'.error.description = "The value {ustr} is not recognized."
              /\ outcome'.error.arg = VStr(lx.payload)]_vars

----------------------------------------------------------------------------
(* SpecTs: loads() on texts put together from the parts of a timestamp,    *)
(* well formed and not, with a fraction of at most MaxFraction digits.     *)

MaxFraction == 3

TsDates ==
  { <<"2", "0", "0", "7", "-", "0", "2", "-", "2", "3">>,
    <<"2", "0", "0", "7", "-", "0", "2", "-", "3", "0">>,
    <<"2", "0", "0", "7", "-", "1", "3", "-", "0", "1">>,
    <<"2", "0", "0", "7", "-", "2", "-", "2", "3">>,
    <<"2", "0", "0", "7">> }

TsMarks == {<<"T">>, <<"t">>}

TsTimes ==
  { <<"1", "2", ":", "1", "4", ":", "3", "3">>,
    <<"1", "2", ":", "1", "4">>,
    <<"2", "4", ":", "1", "4", ":", "3", "3">>,
    <<"1", "2", ":", "1", "4", ":", "6", "0">> }

\* no fraction, or '.' and the first k of the digits 0 7 9 0 7 9 ...
TsFractions ==
  {<<>>} \cup {<<".">> \o [i \in 1..k |-> <<"0", "7", "9">>[((i - 1) % 3) + 1]] :
               k \in 0..MaxFraction}

TsZones ==
  { <<"Z">>, <<"z">>, <<>>,
    <<"-", "0", "8", ":", "0", "0">>,
    <<"+", "0", "8", ":", "0", "0">>,
    <<"+", "2", "4", ":", "0", "0">>,
    <<"+", "0", "8", ":", "0", "0", ":", "0", "0">> }

TsTails == {<<>>, <<",">>, <<SP>>, <<LF>>}

TsTexts ==
  TsDates \cup
  {d \o m \o t \o f \o z \o e :
     d \in TsDates, m \in TsMarks, t \in TsTimes, f \in TsFractions, z \in TsZones,
     e \in TsTails}

InitTs == TextInit(TsTexts)

NextTs == Examine \/ Resume \/ ParseTok \/ ParseEnd

SpecTs == InitTs /\ [][NextTs]_vars

----------------------------------------------------------------------------
\* the two-digit field of s at i is a number of lo..hi
Field(s, i, lo, hi) ==
  /\ Len(s) > i
  /\ s[i] \in DecimalDigit /\ s[i + 1] \in DecimalDigit
  /\ 10 * DigitVal(s[i]) + DigitVal(s[i + 1]) \in lo..hi

\* +-HH:MM, hours to 23 and minutes to 59
OffsetGrammar(z) ==
  Len(z) = 6 /\ z[1] \in {"+", "-"} /\ Field(z, 2, 0, 23) /\ z[4] = ":" /\ Field(z, 5, 0, 59)

\* YYYY-MM-DDTHH:MM:SS[.fraction](Z|+-HH:MM) with the fields in their ranges
TimestampGrammar(s) ==
  /\ Len(s) >= 20
  /\ DigitRun(SubSeq(s, 1, 4))
  /\ s[5] = "-" /\ Field(s, 6, 1, 12)
  /\ s[8] = "-" /\ Field(s, 9, 1, 31)
  /\ s[11] = "T" /\ Field(s, 12, 0, 23)
  /\ s[14] = ":" /\ Field(s, 15, 0, 59)
  /\ s[17] = ":" /\ Field(s, 18, 0, 59)
  /\ \E k \in 19..Len(s) :
       /\ k > 19 => (s[20] = "." /\ k > 20 /\ DigitRun(SubSeq(s, 21, k)))
       /\ \/ SubSeq(s, k + 1, Len(s)) \in {<<"Z">>, <<"z">>}
          \/ OffsetGrammar(SubSeq(s, k + 1, Len(s)))

\* the offset a text of the timestamp grammar names, in minutes
OffsetNamed(s) ==
  IF s[Len(s)] \in {"Z", "z"} THEN 0
  ELSE (IF s[Len(s) - 5] = "-" THEN -1 ELSE 1)
       * (60 * (10 * DigitVal(s[Len(s) - 4]) + DigitVal(s[Len(s) - 3]))
          + 10 * DigitVal(s[Len(s) - 1]) + DigitVal(s[Len(s)]))

\* the calendar has the day the text names
DateExists(s) ==
  /\ NatOf(SubSeq(s, 1, 4)) >= 1
  /\ 10 * DigitVal(s[9]) + DigitVal(s[10])
       <= DaysInMonth(NatOf(SubSeq(s, 1, 4)), 10 * DigitVal(s[6]) + DigitVal(s[7]))

\* loads() fails with the located error of the description, about the text
LocatedAbout(description, text) ==
  /\ pc' = "done"
  /\ outcome'.kind = "raise"
  /\ outcome'.error.exc = "ZishLocationException"
  /\ outcome'.error.description = description
  /\ outcome'.error.arg = VStr(text)

\* the token goes on, of the type given, with the character examined
GoesOn(type) ==
  /\ pc' = "lex"
  /\ lx'.in_token
  /\ lx'.token_type = type
  /\ lx'.payload = Append(lx.payload, NextChar)

\* the timestamp is complete with the text given
Completes(text) ==
  IF ~TimestampGrammar(text)
  THEN LocatedAbout("The timestamp {tstr} is not recognized.", text)
  ELSE DateExists(text) => (YieldsA("ts") /\ token'.value[3] = OffsetNamed(text))

ExampleTimestamp ==
  <<"2", "0", "0", "7", "-", "0", "2", "-", "2", "3", "T", "1", "2", ":", "1", "4", ":",
    "3", "3", ".", "0", "7", "9", "-", "0", "8", ":", "0", "0">>

----------------------------------------------------------------------------
(* SpecBlob: loads() on blob literals of at most MaxBlobPieces pieces      *)
(* between the quotes, closed or not.                                      *)

MaxBlobPieces == 4

BlobPieces ==
  {<<"A">>, <<"Q">>, <<"A", "Q">>, <<"=">>, <<"=", "=">>, <<SP>>, <<LF>>, <<"_">>, <<NBSP>>}

BlobTexts ==
  {<<APOS>> \o b \o e : b \in Runs(BlobPieces, MaxBlobPieces), e \in {<<APOS>>, <<>>}}

InitBlob == TextInit(BlobTexts)

NextBlob == Examine \/ Resume \/ ParseTok \/ ParseEnd

SpecBlob == InitBlob /\ [][NextBlob]_vars

----------------------------------------------------------------------------
Whitespace == {TAB, LF, VT, FF, CR, SP, NBSP}

\* s without its whitespace, wherever it is
WithoutWhitespace(s) == SelectSeq(s, LAMBDA c : c \notin Whitespace)

\* strict base64: characters of the alphabet in groups of four, the last group
\* completed by '=' when it has two or three characters
StrictBase64(s) ==
  \E k \in 0..Len(s) :
    /\ \A i \in 1..k : s[i] \in Range(B64Chars)
    /\ \A i \in (k + 1)..Len(s) : s[i] = "="
    /\ <<k % 4, Len(s) - k>> \in {<<0, 0>>, <<2, 2>>, <<3, 1>>}

\* C13: blob decoding. The text between the quotes of a blob literal has its
\* whitespace stripped, surrounding and embedded, and is then strictly
\* base64-decoded: one Primitive bytes token is emitted, or, for a character
\* outside the alphabet, padding in the wrong place or a wrong padding length,
\* a located error is raised.
C13_BlobDecoding ==
  [][(pc = "lex" /\ lx.in_token /\ lx.token_type = TT_BYTES /\ NextChar = APOS) =>
       IF StrictBase64(WithoutWhitespace(lx.payload))
       THEN YieldsA("bytes")
       ELSE /\ pc' = "done"
            /\ outcome'.kind = "raise"
            /\ outcome'.error.exc = "ZishLocationException"]_vars

----------------------------------------------------------------------------
(* SpecDump: dumps(obj) for the objects below: lists, tuples, sets,        *)
(* frozensets and maps of at most MaxItems primitives, and the values of   *)
(* at most MaxDumpNodes nodes over a few of them.  A set is given by its   *)
(* elements in the order its iteration has them, a map by its items in the *)
(* order they were inserted.                                               *)

MaxItems == 2

MaxDumpNodes == 4

VFloat(repr) == <<"float", repr>>

VNaive(f) == <<"naive", f>>

\* an object of a type that _dump has no case for
Unsupported == <<"complex">>

DumpAtoms ==
  { VNull, VBool(TRUE), VInt(1), VFloat(<<"1", ".", "5">>), VFloat(<<"i", "n", "f">>),
    VFloat(<<"-", "i", "n", "f">>), VFloat(<<"n", "a", "n">>), VDec(0, 25, -1),
    VStr(<<"a">>), VBytes(<<1>>), <<"bytearray", <<1>>>>,
    VTimestamp(<<2000, 1, 2, 3, 4, 5, 0>>, -90), VNaive(<<2000, 1, 2, 3, 4, 5, 0>>),
    <<"set", <<VInt(2), VInt(1)>>>>, Unsupported }

\* what can be hashed, so be a key of a map or an element of a set
DumpKeys ==
  { VBool(TRUE), VInt(1), VInt(2), VInt(10), VFloat(<<"1", ".", "5">>), VDec(0, 25, -1),
    VStr(<<"a">>), VStr(<<"b">>), VBytes(<<1>>),
    VTimestamp(<<2000, 1, 2, 3, 4, 5, 0>>, -90), VNaive(<<2000, 1, 2, 3, 4, 5, 0>>) }

DumpEntryValues == {VNull, VList(<<>>)}

NestAtoms == {VInt(1), VStr(<<"a">>), <<"frozenset", <<VInt(1), VStr(<<"a">>)>>>>, Unsupported}

\* at most n keys, no two of them equal
KeyRuns(keys, n) ==
  {s \in UNION {[1..m -> keys] : m \in 0..n} :
     \A i, j \in 1..Len(s) : i < j => ~PyEq(s[i], s[j])}

DumpObjects ==
  DumpAtoms
  \cup {<<t, s>> : t \in {"list", "tuple"}, s \in UNION {[1..n -> DumpAtoms] : n \in 0..MaxItems}}
  \cup {<<t, s>> : t \in {"set", "frozenset"}, s \in KeyRuns(DumpKeys, MaxItems)}
  \cup {VMap([i \in 1..Len(r) |-> <<r[i], v[i]>>]) :
          r \in KeyRuns(DumpKeys, MaxItems), v \in [1..MaxItems -> DumpEntryValues]}
  \cup ValuesOf(NestAtoms, MaxDumpNodes)

InitDump ==
  \E v \in DumpObjects :
    /\ obj = v
    /\ zish_str = <<>>
    /\ closed = TRUE
    /\ pos = 0
    /\ lx = LexInit
    /\ ps = ParserInit
    /\ pc = "dump"
    /\ token = NoToken
    /\ tokens = <<>>
    /\ outcome = NoOutcome
    /\ first = NoOutcome
    /\ edit = NoEdit

\* dumps(obj) returns its text or raises
Dump ==
  /\ pc = "dump"
  /\ pc' = "done"
  /\ LET Result(d) ==
           /\ zish_str' = (IF d.exc = "" THEN d.s ELSE <<>>)
           /\ outcome' = (IF d.exc = "" THEN ReturnedOutcome(VStr(d.s))
                          ELSE IF d.exc = "ZishException"
                          THEN RaisedOutcome(General("Type {type(obj)} not recognised.",
                                                     <<"type", d.s>>))
                          ELSE RaisedOutcome(Foreign(d.exc, <<"type", d.s>>)))
     IN  Result(dumps(obj))
  /\ UNCHANGED <<closed, pos, lx, ps, token, tokens, obj, first, edit>>

NextDump == Dump

SpecDump == InitDump /\ [][NextDump]_vars

----------------------------------------------------------------------------
\* the types of the primitive Values: Null, Bool, Int, Float, Decimal, Str,
\* Bytes, Timestamp (with an offset, or with none known)
PrimitiveTypes == {"null", "bool", "int", "float", "dec", "str", "bytes", "ts", "naive"}

\* v is built from the primitive Values, List and Map only
RECURSIVE IsValue(_)
IsValue(v) ==
  CASE TypeOf(v) = "list" -> \A i \in 1..Len(v[2]) : IsValue(v[2][i])
    [] TypeOf(v) = "map" -> \A i \in 1..Len(v[2]) : IsValue(v[2][i][1]) /\ IsValue(v[2][i][2])
    [] OTHER -> TypeOf(v) \in PrimitiveTypes

\* the types of the objects in v, at any depth, that dumps() has no case for
RECURSIVE UnsupportedIn(_)
UnsupportedIn(v) ==
  CASE TypeOf(v) \in {"list", "tuple", "set", "frozenset"} ->
         UNION {UnsupportedIn(v[2][i]) : i \in 1..Len(v[2])}
    [] TypeOf(v) = "map" ->
         UNION {UnsupportedIn(v[2][i][1]) \cup UnsupportedIn(v[2][i][2]) : i \in 1..Len(v[2])}
    [] TypeOf(v) \in PrimitiveTypes \cup {"bytearray"} -> {}
    [] OTHER -> {TypeOf(v)}

\* C14: serializer totality. dumps returns text for every Value built from
\* Null, Bool, Int, Float, Decimal, Str, Bytes, Timestamp, List and Map at any
\* depth, a Bool as true or false; the only error it raises is the general
\* ZishException 'Type <type> not recognised.' naming the type of an
\* unsupported object, at the top level or nested in a list or a map.
C14_Totality ==
  Ended =>
    /\ IsValue(obj) => outcome.kind = "return"
    /\ obj = VBool(TRUE) => outcome = ReturnedOutcome(VStr(<<"t", "r", "u", "e">>))
    /\ outcome.kind = "raise" =>
         /\ outcome.error.exc = "ZishException"
         /\ outcome.error.description = "Type {type(obj)} not recognised."
         /\ outcome.error.arg[2] \in UnsupportedIn(obj)

----------------------------------------------------------------------------
\* every two of the keys compare
MutuallyComparable(keys) ==
  \A i, j \in 1..Len(keys) : i # j => Comparable(keys[i], keys[j])

KeysOf(items) == [i \in 1..Len(items) |-> items[i][1]]

\* the keys are in ascending order
Ascending(keys) == \A i, j \in 1..Len(keys) : i < j => PyLess(keys[i], keys[j])

\* the orders a sequence can be put in
Rearranged(s) ==
  {[i \in 1..Len(s) |-> s[p[i]]] :
     p \in {q \in [1..Len(s) -> 1..Len(s)] : \A i, j \in 1..Len(s) : i # j => q[i] # q[j]}}

\* the text of a top-level map whose entries are written in the order given
TextOfEntries(items) ==
  IF items = <<>> THEN <<"{", "}">>
  ELSE <<"{">> \o DumpItems(items, 2).s \o <<LF, "}">>

----------------------------------------------------------------------------
\* C16: set serialization. dumps writes a set or a frozenset as it writes the
\* List of the same elements put in order by the rule of the map keys: sorted
\* when all the elements are mutually comparable, in the order of the
\* collection's iteration otherwise, without raising; the empty set is '[]'.
C16_SetSerialization ==
  (Ended /\ TypeOf(obj) \in {"set", "frozenset"}) =>
    /\ \E e \in Rearranged(obj[2]) :
         /\ IF MutuallyComparable(obj[2]) THEN Ascending(e) ELSE e = obj[2]
         /\ dumps(VList(e)) = (IF outcome.kind = "return" THEN Dumped(outcome.value[2])
                               ELSE DumpRaised(outcome.error.exc, outcome.error.arg[2]))
    /\ obj[2] = <<>> => outcome = ReturnedOutcome(VStr(<<"[", "]">>))

----------------------------------------------------------------------------
\* the texts one after the other, each on a line of its own after n spaces
\* and followed by a comma
RECURSIVE Lines(_, _)
Lines(texts, n) ==
  IF texts = <<>> THEN <<>>
  ELSE <<LF>> \o [i \in 1..n |-> SP] \o Head(texts) \o <<",">> \o Lines(Tail(texts), n)

\* the items of a map in the order C15 has them written
WrittenOrder(items) ==
  IF MutuallyComparable(KeysOf(items))
  THEN CHOOSE e \in Rearranged(items) : Ascending(KeysOf(e))
  ELSE items

\* the layout of a value at nesting depth d
RECURSIVE Layout(_, _)
Layout(v, d) ==
  LET Entry(kv) == Layout(kv[1], d + 1) \o <<":", SP>> \o Layout(kv[2], d + 1)
      Entries(items) == [i \in 1..Len(items) |-> Entry(items[i])]
      Elements == [i \in 1..Len(v[2]) |-> Layout(v[2][i], d + 1)]
  IN  CASE TypeOf(v) = "list" ->
             IF v[2] = <<>> THEN <<"[", "]">>
             ELSE <<"[">> \o Lines(Elements, 2 * (d + 1)) \o <<LF>> \o [i \in 1..(2 * d) |-> SP]
                  \o <<"]">>
        [] TypeOf(v) = "map" ->
             IF v[2] = <<>> THEN <<"{", "}">>
             ELSE <<"{">> \o Lines(Entries(WrittenOrder(v[2])), 2 * (d + 1)) \o <<LF>>
                  \o [i \in 1..(2 * d) |-> SP] \o <<"}">>
        [] OTHER -> dumps(v).s

\* C17: fixed layout. dumps lays out a non-empty List or Map at nesting depth
\* d as the opening bracket, each element or '<key>: <value>' entry on a line
\* of its own after exactly 2*(d+1) spaces and followed by ',', and the
\* closing bracket on a line of its own after exactly 2*d spaces; an empty
\* List is '[]' and an empty Map '{}' at any depth; the text neither begins
\* nor ends with a newline.
C17_FixedLayout ==
  (Ended /\ IsValue(obj) /\ outcome.kind = "return") =>
    /\ outcome.value = VStr(Layout(obj, 0))
    /\ outcome.value[2][1] # LF
    /\ outcome.value[2][Len(outcome.value[2])] # LF

\* a list that holds a map that holds a list has been laid out, and an empty
\* list at depth 2
C17_Witness ==
  /\ Ended
  /\ outcome.kind = "return"
  /\ obj = VList(<<VMap(<<<<VInt(1), VList(<<>>)>>>>)>>)
  /\ outcome.value[2] = <<"[", LF, SP, SP, "{", LF, SP, SP, SP, SP, "1", ":", SP, "[", "]", ",",
                           LF, SP, SP, "}", ",", LF, "]">>

----------------------------------------------------------------------------
(* SpecStr: loads() on string literals: an opening quote and at most       *)
(* MaxStrPieces of the pieces below, and the texts dumps() makes of the    *)
(* strings of at most MaxStrPieces of them.                                *)

MaxStrPieces == 4

StrPieces == {<<BACKSLASH>>, <<QUOTE>>, <<"a">>, <<"n">>, <<SP>>, <<",">>}

InitStr ==
  \/ TextInit({<<QUOTE>> \o r : r \in Runs(StrPieces, MaxStrPieces)})
  \/ DocInit({VStr(r) : r \in Runs(StrPieces, MaxStrPieces)})

NextStr == Examine \/ Resume \/ ParseTok \/ ParseEnd

SpecStr == InitStr /\ [][NextStr]_vars

----------------------------------------------------------------------------
\* how many backslashes s ends with
RECURSIVE TrailingBackslashes(_)
TrailingBackslashes(s) ==
  IF s # <<>> /\ s[Len(s)] = BACKSLASH
  THEN 1 + TrailingBackslashes(SubSeq(s, 1, Len(s) - 1))
  ELSE 0

\* C18: string closing rule. Inside a string literal the characters accumulate
\* until the first unescaped double quote, one not immediately preceded by a
\* backslash that no earlier escape has consumed; a double quote after an
\* escaped backslash closes the string. So the text quote, backslash,
\* backslash, quote is the Str of one backslash, and the text dumps makes of
\* any Str, one ending in a backslash too, is lexed back as one string token.
C18_StringClosing ==
  /\ [][(pc = "lex" /\ lx.in_token /\ lx.token_type = TT_STRING /\ NextChar = QUOTE) =>
          IF TrailingBackslashes(lx.payload) % 2 = 0
          THEN pc' \in {"token", "done"}
          ELSE pc' = "lex" /\ lx'.in_token /\ lx'.payload = Append(lx.payload, QUOTE)]_vars
  /\ [](Ended =>
          /\ zish_str = <<QUOTE, BACKSLASH, BACKSLASH, QUOTE>> =>
               outcome = ReturnedOutcome(VStr(<<BACKSLASH>>))
          /\ TypeOf(obj) = "str" => (outcome.kind = "return" /\ Len(tokens) = 1))

----------------------------------------------------------------------------
(* SpecEsc: unescape() on the texts of at most MaxEscPieces of the pieces  *)
(* below, and on the body _dump_str() makes of the strings of at most      *)
(* MaxEscPieces of the characters below.                                   *)

MaxEscPieces == 4

EscPieces ==
  { <<BACKSLASH>>, <<"x">>, <<"u">>, <<"4">>, <<"1">>, <<"4", "1">>, <<"0", "0">>, <<"g">>,
    <<"n">>, <<SP>>, <<"+">> }

EscChars == {<<BACKSLASH>>, <<QUOTE>>, <<"a">>, <<"n">>, <<"x">>, <<"4">>, <<LF>>}

\* either a string is given, for _dump_str to escape, or an escaped text, for
\* unescape to resolve
InitEsc ==
  /\ \/ /\ \E s \in Runs(EscChars, MaxEscPieces) : obj = VStr(s)
        /\ zish_str = <<>>
        /\ pc = "escape"
     \/ /\ \E s \in Runs(EscPieces, MaxEscPieces) : zish_str = s
        /\ obj = VNull
        /\ pc = "unescape"
  /\ closed = TRUE
  /\ pos = 0
  /\ lx = LexInit
  /\ ps = ParserInit
  /\ token = NoToken
  /\ tokens = <<>>
  /\ outcome = NoOutcome
  /\ first = NoOutcome
  /\ edit = NoEdit

\* line 286: the body _dump_str puts between the quotes
Escape ==
  /\ pc = "escape"
  /\ pc' = "unescape"
  /\ zish_str' = EscapeStr(obj[2])
  /\ UNCHANGED <<closed, pos, lx, ps, token, tokens, outcome, obj, first, edit>>

\* unescape(zish_str) returns a string or raises
Unescape ==
  /\ pc = "unescape"
  /\ pc' = "done"
  /\ LET Result(u) ==
           outcome' = (IF u.exc = "" THEN ReturnedOutcome(VStr(u.s))
                       ELSE IF u.exc = "ZishException"
                       THEN RaisedOutcome(General("Can't find a valid string following the first backslash of",
                                                  VStr(u.s)))
                       ELSE RaisedOutcome(Foreign(u.exc, VStr(u.s))))
     IN  Result(unescape(zish_str))
  /\ UNCHANGED <<zish_str, closed, pos, lx, ps, token, tokens, obj, first, edit>>

NextEsc == Escape \/ Unescape

SpecEsc == InitEsc /\ [][NextEsc]_vars

----------------------------------------------------------------------------
\* every backslash of s doubled
RECURSIVE BackslashesDoubled(_)
BackslashesDoubled(s) ==
  IF s = <<>> THEN <<>>
  ELSE (IF Head(s) = BACKSLASH THEN <<BACKSLASH, BACKSLASH>> ELSE <<Head(s)>>)
       \o BackslashesDoubled(Tail(s))

\* every double quote of s prefixed by a backslash
RECURSIVE QuotesPrefixed(_)
QuotesPrefixed(s) ==
  IF s = <<>> THEN <<>>
  ELSE (IF Head(s) = QUOTE THEN <<BACKSLASH, QUOTE>> ELSE <<Head(s)>>)
       \o QuotesPrefixed(Tail(s))

\* C19: escape resolution inverts the serializer's escaping. For every string
\* s, unescape of s with every backslash doubled and then every double quote
\* prefixed by a backslash, the body _dump_str emits, is s; and unescape
\* returns a text with no backslash in it unchanged.
C19_UnescapeInverts ==
  /\ (pc # "escape" /\ TypeOf(obj) = "str") =>
       zish_str = QuotesPrefixed(BackslashesDoubled(obj[2]))
  /\ Ended =>
       /\ TypeOf(obj) = "str" => outcome = ReturnedOutcome(obj)
       /\ (\A i \in 1..Len(zish_str) : zish_str[i] # BACKSLASH) =>
            outcome = ReturnedOutcome(VStr(zish_str))

\* a string with a backslash, a double quote and a line feed in it has been
\* escaped and resolved back
C19_Witness ==
  /\ Ended
  /\ TypeOf(obj) = "str"
  /\ {BACKSLASH, QUOTE, LF} \subseteq {obj[2][i] : i \in 1..Len(obj[2])}
  /\ outcome = ReturnedOutcome(obj)

\* escape resolution as C20 has it: a named or line-continuation escape, or
\* x, u, U and exactly 2, 4, 8 hexadecimal digits, or else the general error
\* naming the remainder
RECURSIVE Resolved(_)
Resolved(s) ==
  LET i == Find(s, BACKSLASH)
      head == SubSeq(s, 1, i - 1)
      tail == SubSeq(s, i + 1, Len(s))
      n == EscapeDigits(tail[1])
      hex == SubSeq(tail, 2, 1 + n)
  IN  IF i = 0 THEN [exc |-> "", s |-> s]
      ELSE IF EscapeIndex(tail) # 0
      THEN Prepend(head \o ESCAPES[EscapeIndex(tail)][2],
                   Resolved(SubSeq(tail, Len(ESCAPES[EscapeIndex(tail)][1]) + 1, Len(tail))))
      ELSE IF /\ tail # <<>>
              /\ tail[1] \in {"x", "u", "U"}
              /\ Len(tail) >= 1 + n
              /\ \A j \in 1..n : hex[j] \in HexDigits
              /\ HexNat(hex) <= MaxCodePoint
      THEN Prepend(head \o <<Chr(HexNat(hex))>>, Resolved(SubSeq(tail, 2 + n, Len(tail))))
      ELSE [exc |-> "ZishException", s |-> s]

\* C20: fixed-width numeric escapes. In escape resolution a backslash and
\* 'x', 'u' or 'U' is accepted only when exactly 2, 4 or 8 hexadecimal digits
\* follow, and then gives the one character of that code point; with fewer
\* hexadecimal digits after it (at the end of the string too), with a
\* character that is not a hexadecimal digit among them, or when no named or
\* line-continuation escape matches, escape resolution raises the general
\* ZishException naming the unresolved remainder.
C20_NumericEscapes ==
  (Ended /\ obj = VNull) =>
    LET Expected(r) ==
          IF r.exc = "" THEN outcome = ReturnedOutcome(VStr(r.s))
          ELSE outcome = RaisedOutcome(General("Can't find a valid string following the first backslash of",
                                               VStr(r.s)))
    IN  Expected(Resolved(zish_str))

----------------------------------------------------------------------------
(* Positions reported by lex(), against the text examined so far.          *)

\* the characters of the text that the for loop has taken
ExaminedText == Take(zish_str, pos)

\* the index in the text of the last newline taken, 0 if none
LastNewline ==
  LET at == {i \in 1..Len(ExaminedText) : ExaminedText[i] = LF}
  IN  IF at = {} THEN 0 ELSE CHOOSE i \in at : \A j \in at : j <= i

\* the item examined last is the k-th of its line, the sentinel counted
ColumnIndex == pos - LastNewline

\* the item examined last is a newline
AtNewline == pos = LastNewline /\ pos > 0

\* errors located where the literal opened, not where the loop is
UnterminatedDescriptions ==
  { "Parsing a string but can't find the ending '\"'. The first part of the string is: ",
    "Parsing bytes but can't find the ending '''. The first part of the bytes is: " }

\* this step of the generator yields a token
LexYields == pc \in {"lex", "resume"} /\ pc' = "token"

\* this step of the generator raises an error located at the loop's position
LexRaisesHere ==
  /\ pc \in {"lex", "resume"}
  /\ pc' = "done"
  /\ outcome'.error.exc = "ZishLocationException"
  /\ outcome'.error.description \notin UnterminatedDescriptions

\* C21: position counting is the same on every line. The line reported for a
\* token or an error is 1 plus the number of newlines examined so far, and the
\* column reported when the k-th character of a line is examined is k + 1, on
\* line 1 and on every later line alike.
C21_PositionCounting ==
  [][ /\ LexYields =>
           /\ token'.line = 1 + Count(ExaminedText', LF)
           /\ ~AtNewline' => token'.character = ColumnIndex' + 1
      /\ LexRaisesHere =>
           /\ outcome'.error.line = 1 + Count(ExaminedText', LF)
           /\ ~AtNewline' => outcome'.error.character = ColumnIndex' + 1 ]_vars

----------------------------------------------------------------------------
(* SpecPull: loads() on every complete text made of at most MaxPullPieces  *)
(* of the pieces below: structural characters, a literal, a string, and a  *)
(* character no literal has.                                               *)

MaxPullPieces == 4

PullPieces ==
  { <<"[">>, <<"]">>, <<"{">>, <<"}">>, <<":">>, <<",">>, <<"1">>, <<SP>>, <<"x">>,
    <<QUOTE, "a", QUOTE>> }

InitPull == TextInit(Runs(PullPieces, MaxPullPieces))

NextPull == Examine \/ Resume \/ ParseTok \/ ParseEnd

SpecPull == InitPull /\ [][NextPull]_vars

\* the index of the item whose examination ended the token of history entry
\* t: the closing quote, the 'z' or the structural character itself, else the
\* item after the token's last character
Terminator(t) ==
  IF t.token.token_type = TT_PRIMITIVE /\ zish_str[t.last] \notin {QUOTE, APOS, "z", "Z"}
  THEN t.last + 1
  ELSE t.last

\* the parser raises on the token it was just handed
ParserRefuses == pc = "token" /\ pc' = "done" /\ outcome'.kind = "raise"

\* C22: pull-based, one-token lookahead. The lexer yields one token at a time
\* and does not run while the parser holds a token it has not yet taken; when
\* the parser raises an error for a token, the lexer has examined no character
\* beyond that token's terminating character; and loads returns a value only
\* after the lexer has examined the whole text and the end-of-input sentinel.
C22_PullBased ==
  [][ /\ tokens' # tokens =>
           /\ pc' = "token"
           /\ tokens' = Append(tokens, [token |-> token', last |-> tokens'[Len(tokens')].last])
      /\ pc = "token" => pos' = pos /\ lx' = lx /\ tokens' = tokens
      /\ ParserRefuses => pos' = Terminator(tokens[Len(tokens)])
      /\ (pc' = "done" /\ outcome'.kind = "return") =>
           /\ Exhausted'
           /\ pos' = Len(zish_str) + 1 ]_vars

\* the parser has refused a token while text that the lexer would refuse, had
\* it come to it, is still unexamined
C22_Witness ==
  /\ pc = "done"
  /\ outcome = RaisedOutcome(Located(token.line, token.character, MULTIPLE, VNull))
  /\ pos < Len(zish_str)
  /\ \E i \in (pos + 1)..Len(zish_str) : zish_str[i] = "x"

----------------------------------------------------------------------------
(* SpecComment: loads() on every complete text made of at most             *)
(* MaxCommentPieces of the characters a comment is made of.                *)

MaxCommentPieces == 6

CommentPieces == {<<"/">>, <<"*">>, <<"1">>, <<LF>>}

InitComment == TextInit(Runs(CommentPieces, MaxCommentPieces))

NextComment == Examine \/ Resume \/ ParseTok \/ ParseEnd

SpecComment == InitComment /\ [][NextComment]_vars

\* the places of s, from the i-th on, where a '*' stands right before a '/'
ClosersFrom(s, i) == {j \in i..(Len(s) - 1) : s[j] = "*" /\ s[j + 1] = "/"}

\* s is '/*', an interior without '*/' in it, and '*/'
IsComment(s) ==
  /\ Len(s) >= 4
  /\ SubSeq(s, 1, 2) = <<"/", "*">>
  /\ SubSeq(s, Len(s) - 1, Len(s)) = <<"*", "/">>
  /\ ClosersFrom(SubSeq(s, 3, Len(s) - 2), 1) = {}

\* C23: comment skipping. A '/' in the default state must be followed by '*',
\* else the located error 'A comment starts with a '/*'.'; every text '/*' +
\* interior + '*/' whose interior has no '*/' in it is discarded without a token
\* or an error, whatever the interior is; the text '/*/' alone is not a comment;
\* and the end of the input inside a comment is a general error.
C23_CommentSkipping ==
  /\ (Len(zish_str) >= 1 /\ zish_str[1] = "/" /\ Take(zish_str, 2) # <<"/", "*">> /\ Ended) =>
       /\ outcome.kind = "raise"
       /\ outcome.error.exc = "ZishLocationException"
       /\ outcome.error.description = "A comment starts with a '/*'."
  /\ (pos <= Len(zish_str) /\ IsComment(ExaminedText)) =>
       /\ pc = "lex"
       /\ ~lx.in_token
       /\ tokens = <<>>
  /\ (IsComment(zish_str) /\ Ended) => NoValueFound
  /\ (zish_str = <<"/", "*", "/">> /\ Ended) => outcome.kind = "raise" /\ ~NoValueFound
  /\ (Take(zish_str, 2) = <<"/", "*">> /\ ClosersFrom(zish_str, 2) = {} /\ Ended) =>
       /\ outcome.kind = "raise"
       /\ outcome.error.exc = "ZishException"
       /\ ~NoValueFound

----------------------------------------------------------------------------
\* the tokens end while the innermost open container is a map
EndsInsideMap == pc = "stop" /\ ps.stack # <<>> /\ Top(ps).kind = "map"

\* the type of the n-th token from the end of those read, TT_None if none
TypeFromEnd(n) ==
  IF Len(tokens) > n THEN tokens[Len(tokens) - n].token.token_type ELSE TT_None

\* loads() raises a located error at the last token read
RaisesAtLastToken(description) ==
  outcome' = RaisedOutcome(Located(token.line, token.character, description, VNull))

\* C24: end of input inside a map. When the tokens end while a map is open,
\* loads raises a located error at the last token read that names what was
\* expected: after '{' a key or a closing '}', after a key a ':', after ':' a
\* value, after ',' a value; only directly after a complete key/value pair is
\* the error the general one about the map not being closed with '}'.
C24_EndInsideMap ==
  [][ EndsInsideMap =>
        CASE TypeFromEnd(0) = TT_START_MAP ->
               RaisesAtLastToken("After this opening '{', a key or a closing '}' was expected, but reached the end of the document instead.")
          [] TypeFromEnd(0) = TT_COLON ->
               RaisesAtLastToken("After this ':', a value was expected, but reached the end of the document instead.")
          [] TypeFromEnd(0) = TT_COMMA ->
               RaisesAtLastToken("After this ',' a value was expected, but reached the end of the document instead.")
          [] TypeFromEnd(0) = TT_PRIMITIVE /\ TypeFromEnd(1) # TT_COLON ->
               RaisesAtLastToken("After this key, a ':' was expected, but reached the end of the document instead.")
          [] OTHER ->
               outcome' = RaisedOutcome(General(
                 "Reached the end of the document without a map being closed with a '}'.",
                 VNull)) ]_vars

\* the text ended after the comma that follows a map's first pair
C24_Witness ==
  /\ pc = "done"
  /\ Len(tokens) = 5
  /\ outcome = RaisedOutcome(Located(token.line, token.character,
       "After this ',' a value was expected, but reached the end of the document instead.",
       VNull))

----------------------------------------------------------------------------
(* SpecTsTrip: loads() on the timestamp texts of SpecTs and on the text    *)
(* dumps() makes of a datetime without an offset; what loads() returned is *)
(* written by dumps() and read again.                                      *)

NaiveFields == {<<2007, 2, 23, 12, 14, 33, 0>>, <<2007, 2, 23, 12, 14, 33, 79000>>}

InitTsTrip == InitTs \/ DocInit({VNaive(f) : f \in NaiveFields})

\* loads(dumps(v)) for the value v that loads() returned
Redump ==
  /\ pc = "done"
  /\ outcome.kind = "return"
  /\ dumps(outcome.value).exc = ""
  /\ Again(dumps(outcome.value).s, [kind |-> "dump", at |-> 0, text |-> <<>>])

NextTsTrip == Examine \/ Resume \/ ParseTok \/ ParseEnd \/ Redump

SpecTsTrip == InitTsTrip /\ [][NextTsTrip]_vars

\* the text is the one dumps() made of the Timestamp loads() had returned
Rewritten == edit.kind = "dump" /\ TypeOf(first.value) = "ts"

\* the last n characters of s
Last(s, n) == SubSeq(s, Len(s) - n + 1, Len(s))

\* C25: timestamp serialization is an exact inverse. For every Timestamp t that
\* loads can produce, with or without fractional seconds, dumps(t) is a text
\* of the timestamp grammar and loads(dumps(t)) has the date, time, sub-second
\* value and offset of t; a timestamp of offset zero is written in the compact
\* form YYYY-MM-DDTHH:MM:SSZ, one without an offset as ISO-8601 text and
\* '-00:00', any other as ISO-8601 text with its numeric offset.
C25_TimestampInverse ==
  /\ Rewritten =>
       /\ TimestampGrammar(zish_str)
       /\ first.value[3] = 0 => Len(zish_str) = 20 /\ zish_str[20] = "Z"
       /\ first.value[3] # 0 =>
            /\ OffsetGrammar(Last(zish_str, 6))
            /\ OffsetNamed(zish_str) = first.value[3]
       /\ Ended => outcome.kind = "return" /\ outcome.value = first.value
  /\ (TypeOf(obj) = "naive" /\ edit = NoEdit) =>
       /\ Last(zish_str, 6) = <<"-", "0", "0", ":", "0", "0">>
       /\ Len(zish_str) = IF obj[2][7] = 0 THEN 25 ELSE 32

----------------------------------------------------------------------------
(* SpecDecTrip: loads() on every complete text of at most MaxDecPieces of  *)
(* the characters of a number; what loads() returned is written by dumps() *)
(* and read again.                                                         *)

MaxDecPieces == 4

DecPieces == {<<"-">>, <<"0">>, <<"1">>, <<"8">>, <<".">>, <<"e">>, <<"E">>}

InitDecTrip == TextInit(Runs(DecPieces, MaxDecPieces))

NextDecTrip == Examine \/ Resume \/ ParseTok \/ ParseEnd \/ Redump

SpecDecTrip == InitDecTrip /\ [][NextDecTrip]_vars

\* the text is the one dumps() made of the Decimal loads() had returned
RewrittenDecimal == edit.kind = "dump" /\ TypeOf(first.value) = "dec"

\* C26: Decimal keeps its variant and precision. The text dumps writes for a
\* Decimal produced by parsing is read by loads as a Decimal again, never an
\* Int, with the same sign, digits and exponent; so the values parsed from
\* '-0.' and '-0.0', and from '0E-8' and '0.', stay distinct from each other
\* and from Int 0 after a round trip.
C26_DecimalRoundTrip ==
  (RewrittenDecimal /\ Ended) =>
    /\ outcome.kind = "return"
    /\ TypeOf(outcome.value) = "dec"
    /\ outcome.value = first.value

----------------------------------------------------------------------------
(* SpecPass: loads() on the timestamp texts of SpecTs, on every complete   *)
(* text of at most MaxPassPieces of the pieces below, and on '[1,2]'.      *)

MaxPassPieces == 4

PassPieces ==
  { <<"[">>, <<"]">>, <<",">>, <<"1">>, <<"2">>, <<SP>>, <<"/">>, <<"*">>, <<QUOTE>>, <<APOS>> }

ExampleList == <<"[", "1", ",", "2", "]">>

InitPass == TextInit(TsTexts \cup Runs(PassPieces, MaxPassPieces) \cup {ExampleList})

NextPass == Examine \/ Resume \/ ParseTok \/ ParseEnd

SpecPass == InitPass /\ [][NextPass]_vars

\* the generator is resumed after a token that the character after it ended:
\* a bare literal, or a timestamp with a numeric offset
ResumesAfterBare ==
  /\ pc = "resume"
  /\ lx.at = "yield_token"
  /\ \/ lx.token_type = TT_NO_DELIM
     \/ lx.token_type = TT_TIMESTAMP /\ lx.c \notin {"z", "Z"}

\* the generator is resumed after a token that its own last character ended:
\* a string, a blob, or a timestamp with 'z' or 'Z'
ResumesAfterClosed ==
  /\ pc = "resume"
  /\ lx.at = "yield_token"
  /\ \/ lx.token_type \in {TT_STRING, TT_BYTES}
     \/ lx.token_type = TT_TIMESTAMP /\ lx.c \in {"z", "Z"}

\* this step closes a comment
ClosesComment == lx.in_token /\ lx.token_type = TT_COMMENT /\ ~lx'.in_token

\* the index of the last character of the last token read, 0 if none
LastTokenEnd == IF tokens = <<>> THEN 0 ELSE tokens[Len(tokens)].last

\* C27: single forward pass. lex examines each character of the text exactly
\* once, in order, then one end-of-input sentinel, then stops; the tokens are
\* no more than the characters and none is emitted twice. The character that
\* ends a bare literal or a numeric-offset timestamp is handled in the same
\* step as the start of the next unit: a structural token, whitespace, or a
\* comment opener; the closing quote of a string or blob, the 'z' or 'Z' of a
\* timestamp and the '/' that closes a comment belong to their own unit. Hence
\* '[1,2]' yields exactly the tokens '[', 1, ',', 2, ']'.
C27_SinglePass ==
  /\ [][ /\ pos' # pos =>
              /\ pos' = pos + 1
              /\ pos <= Len(zish_str)
              /\ lx'.c = IF pos' <= Len(zish_str) THEN zish_str[pos'] ELSE EOF
         /\ tokens' # tokens =>
              /\ Len(tokens') = Len(tokens) + 1
              /\ tokens'[Len(tokens')].last > LastTokenEnd
              /\ tokens'[Len(tokens')].last <= Len(zish_str)
         /\ ResumesAfterBare =>
              /\ pos' = pos
              /\ CASE lx.c \in {"{", "}", "[", "]", ":", ","} ->
                        /\ pc' = "token"
                        /\ token'.value = VStr(<<lx.c>>)
                        /\ tokens'[Len(tokens')].last = pos
                   [] lx.c = "/" ->
                        pc' = "lex" /\ lx'.in_token /\ lx'.token_type = TT_COMMENT
                   [] OTHER ->
                        pc' \in {"lex", "stop"} /\ ~lx'.in_token /\ tokens' = tokens
         /\ ResumesAfterClosed => pos' = pos /\ pc' = "lex" /\ ~lx'.in_token /\ tokens' = tokens
         /\ ClosesComment => lx'.c = "/" /\ pc' = "lex" /\ tokens' = tokens ]_vars
  /\ [](pc = "stop" => pos = Len(zish_str) + 1)
  /\ []((Ended /\ zish_str = ExampleList) =>
          /\ outcome = ReturnedOutcome(VList(<<VInt(1), VInt(2)>>))
          /\ [i \in 1..Len(tokens) |-> tokens[i].token.value]
               = <<VStr(<<"[">>), VInt(1), VStr(<<",">>), VInt(2), VStr(<<"]">>)>>)

\* '[1,2]' has been read to its end
C27_Witness ==
  /\ Ended
  /\ zish_str = ExampleList
  /\ Len(tokens) = 5
  /\ pos = 6

----------------------------------------------------------------------------
(* SpecOpen: loads() on texts that open a string or a blob after some      *)
(* whitespace and go on with at most MaxOpenPieces of the pieces below, up *)
(* to 18 characters, with or without a closing quote.                      *)

MaxOpenPieces == 3

OpenPieces ==
  { <<"a">>, <<"A", "Q", "=", "=">>, <<"a", "b", "c", "d", "e", "f">>, <<LF>>, <<QUOTE>>, <<APOS>> }

OpenTexts ==
  {w \o q \o r : w \in Runs({<<SP>>, <<LF>>}, 2), q \in {<<QUOTE>>, <<APOS>>},
                 r \in Runs(OpenPieces, MaxOpenPieces)}

InitOpen == TextInit(OpenTexts)

NextOpen == Examine \/ Resume \/ ParseTok \/ ParseEnd

SpecOpen == InitOpen /\ [][NextOpen]_vars

\* this step examines the opening quote of a string or of a blob
OpensLiteral == ~lx.in_token /\ lx'.in_token /\ lx'.token_type \in {TT_STRING, TT_BYTES}

\* the lexer is inside a string or a blob
InsideLiteral == lx.in_token /\ lx.token_type \in {TT_STRING, TT_BYTES}

\* this step examines the end of the input inside a string or a blob
EndsInsideLiteral == pc = "lex" /\ InsideLiteral /\ pos = Len(zish_str)

\* C28: unterminated string or blob. The end of the input before the closing
\* quote of a string or of a blob raises a located error whose line and column
\* are the ones recorded when the opening quote was examined, not those of the
\* end of the input, and whose message quotes at most the first 10 characters
\* accumulated for the literal.
C28_Unterminated ==
  /\ [][ /\ OpensLiteral =>
              /\ lx'.token_line = lx'.line
              /\ lx'.token_character = lx'.character
              /\ zish_str[pos'] \in {QUOTE, APOS}
         /\ (InsideLiteral /\ lx'.in_token) =>
              /\ lx'.token_line = lx.token_line
              /\ lx'.token_character = lx.token_character
         /\ EndsInsideLiteral =>
              /\ pc' = "done"
              /\ outcome'.kind = "raise"
              /\ outcome'.error.exc = "ZishLocationException"
              /\ outcome'.error.line = lx.token_line
              /\ outcome'.error.character = lx.token_character
              /\ outcome'.error.description \in UnterminatedDescriptions
              /\ outcome'.error.arg = VStr(Take(lx.payload, 10))
              /\ Len(outcome'.error.arg[2]) <= 10 ]_vars
  /\ []((pc = "lex" /\ InsideLiteral) =>
          /\ Len(lx.payload) < pos
          /\ zish_str[pos - Len(lx.payload)] = (IF lx.token_type = TT_STRING THEN QUOTE ELSE APOS)
          /\ lx.payload = SubSeq(zish_str, pos - Len(lx.payload) + 1, pos)
          /\ lx.token_line = 1 + Count(Take(zish_str, pos - Len(lx.payload)), LF))

\* a string of more than 10 characters that began on the second line and runs
\* over a newline has been refused at the end of the input
C28_Witness ==
  /\ Ended
  /\ outcome.kind = "raise"
  /\ outcome.error.description \in UnterminatedDescriptions
  /\ lx.token_type = TT_STRING
  /\ Len(lx.payload) > 10
  /\ outcome.error.line = 2
  /\ lx.line = 3

----------------------------------------------------------------------------
\* the kinds a token is emitted with, and the tags of the lexical states
StructuralKinds ==
  {TT_START_MAP, TT_FINISH_MAP, TT_COLON, TT_COMMA, TT_START_LIST, TT_FINISH_LIST}

StateTags == {TT_STRING, TT_BYTES, TT_NO_DELIM, TT_TIMESTAMP, TT_COMMENT}

\* this step takes the lexer from the default state into a lexical state
EntersState == lx'.in_token /\ (~lx.in_token \/ pc = "resume")

\* this step changes the tag of the lexical state the lexer is in
SwitchesState ==
  pc = "lex" /\ lx.in_token /\ lx'.in_token /\ lx'.token_type # lx.token_type

\* the buffer holds nothing but the character just examined, if that
Cleared == lx'.payload = IF lx'.token_type \in {TT_STRING, TT_BYTES} THEN <<>> ELSE <<lx'.c>>

\* the tokens have the kinds they may have and the lexer has the tags it may
\* have
KindsAndTags ==
  /\ \A i \in 1..Len(tokens) :
       /\ tokens[i].token.token_type \in StructuralKinds \cup {TT_PRIMITIVE}
       /\ tokens[i].token.token_type \notin StateTags
  /\ lx.in_token => lx.token_type \in StateTags
  /\ outcome.error.exc # "Exception"

\* the buffer of a primitive token just yielded is the text from the token's
\* first character, which comes after the end of the token before it, to its
\* last one, the quotes of a string or of a blob left out
BuiltSinceBegan ==
  (pc = "token" /\ token.token_type = TT_PRIMITIVE) =>
    LET q == IF lx.token_type \in {TT_STRING, TT_BYTES} THEN 1 ELSE 0
        e == tokens[Len(tokens)].last - q
        b == e - Len(lx.payload) + 1
    IN  /\ b - q > (IF Len(tokens) = 1 THEN 0 ELSE tokens[Len(tokens) - 1].last)
        /\ lx.payload = SubSeq(zish_str, b, e)
        /\ q = 1 => zish_str[b - 1] = zish_str[e + 1]

\* C29 as stated: lexer state invariant. Every emitted token has kind PRIMITIVE
\* or one of the six structural kinds, never one of the five lexical-state
\* tags; inside a token the state tag is one of those five, so the 'Token type
\* ... not recognized' branch is unreachable; and the accumulation buffer is
\* cleared on entering every lexical state, so a PRIMITIVE token's value is
\* built only from characters examined since that token began.
C29_AsStated ==
  /\ [][(EntersState \/ SwitchesState) => Cleared]_vars
  /\ [](KindsAndTags /\ BuiltSinceBegan)

\* C29 amended: as stated, but the buffer is cleared on entering a lexical
\* state from the default state only; the one change of tag inside a token,
\* from NO_DELIM to TIMESTAMP at a 'T', keeps the buffer and appends the 'T',
\* the date before it being part of the same token.
C29_LexerStates ==
  /\ [][ /\ EntersState => Cleared
         /\ SwitchesState =>
              /\ lx.token_type = TT_NO_DELIM
              /\ lx'.token_type = TT_TIMESTAMP
              /\ lx'.c = "T"
              /\ lx'.payload = Append(lx.payload, "T") ]_vars
  /\ [](KindsAndTags /\ BuiltSinceBegan)

\* a timestamp token has been yielded: the lexer went from the default state
\* into the bare-literal state and at the 'T' on to the timestamp state
C29_Witness ==
  /\ pc = "token"
  /\ lx.token_type = TT_TIMESTAMP
  /\ TypeOf(token.value) = "ts"
  /\ Len(lx.payload) > 20

====
